---- MODULE Spec2Model ----
(***************************************************************************)
(* Model of the fenrirqutrub REST server: the article engagement handlers  *)
(* (like / unlike / view / fetch), the article create / update / delete    *)
(* handlers and the category handlers of src/index.js, and the read-add-   *)
(* save fetch handler of the variant src/unnamed/part_000.                 *)
(*                                                                         *)
(* Every `await` on the content store is one atomic step of the store; the *)
(* code a handler runs between two awaits is local to the request and is   *)
(* folded into the step that follows it.  Strings are sequences of one-    *)
(* character strings so that trimming, stripping, case folding and regular *)
(* expression matching are computed, not assumed.                          *)
(***************************************************************************)
EXTENDS Integers, Sequences, FiniteSets, TLC

----------------------------------------------------------------------------
(* Bounds *)

NumSlots ==
  2

MaxArticles ==
  2

MaxCategories ==
  2

MaxRequests ==
  4

Slots == 1 .. NumSlots

\* The :id values requests carry: 0 stands for a string that is not a
\* well-formed ObjectId, 1 .. MaxArticles are well-formed ids.
RequestIds == 0 .. MaxArticles

\* A check that lets every :id through.
validateObjectIdLax(id) == TRUE

\* mongoose.Types.ObjectId.isValid(id)
validateObjectId(id) == id # 0

----------------------------------------------------------------------------
(* Strings *)

Whitespace == {" "}

RECURSIVE TrimStart(_)
TrimStart(s) ==
  IF s # <<>> /\ Head(s) \in Whitespace THEN TrimStart(Tail(s)) ELSE s

RECURSIVE TrimEnd(_)
TrimEnd(s) ==
  IF s # <<>> /\ s[Len(s)] \in Whitespace
    THEN TrimEnd(SubSeq(s, 1, Len(s) - 1))
    ELSE s

\* String.prototype.trim
Trim(s) == TrimEnd(TrimStart(s))

IsAngle(c) == c \in {"<", ">"}

\* input.trim().replace(/[<>]/g, "")
sanitizeInput(input) ==
  SelectSeq(Trim(input), LAMBDA c : ~IsAngle(c))

toLowerCaseChar(c) ==
  CASE c = "A" -> "a"
    [] c = "B" -> "b"
    [] c = "C" -> "c"
    [] OTHER -> c

\* String.prototype.toLowerCase
toLowerCase(s) == [i \in DOMAIN s |-> toLowerCaseChar(s[i])]

DecimalDigits == <<"0", "1", "2", "3", "4", "5", "6", "7", "8", "9">>

IsAlnum(c) ==
  \/ c \in {"a", "b", "c", "u", "v"}
  \/ \E i \in DOMAIN DecimalDigits : DecimalDigits[i] = c

\* .replace(/[^a-z0-9]+/g, "-"): every maximal run of other characters
\* becomes one hyphen.
RECURSIVE ReplaceRuns(_)
ReplaceRuns(s) ==
  IF s = <<>> THEN <<>>
  ELSE IF IsAlnum(Head(s)) THEN <<Head(s)>> \o ReplaceRuns(Tail(s))
  ELSE IF Len(s) > 1 /\ ~IsAlnum(s[2]) THEN ReplaceRuns(Tail(s))
  ELSE <<"-">> \o ReplaceRuns(Tail(s))

\* .replace(/(^-|-$)/g, "")
StripHyphens(s) ==
  LET a == IF s # <<>> /\ Head(s) = "-" THEN Tail(s) ELSE s
  IN  IF a # <<>> /\ a[Len(a)] = "-" THEN SubSeq(a, 1, Len(a) - 1) ELSE a

\* the slug derivation of categorySchema.pre("save")
categorySlug(categoryName) ==
  StripHyphens(ReplaceRuns(toLowerCase(categoryName)))

\* `${timestamp}`: the decimal digits of a non-negative integer
RECURSIVE Decimal(_)
Decimal(n) ==
  IF n < 10 THEN <<DecimalDigits[n + 1]>>
  ELSE Decimal(n \div 10) \o <<DecimalDigits[(n % 10) + 1]>>

\* the slug derivation of articleSchema.pre("save") in src/index.js
articleSlug(title, timestamp) ==
  StripHyphens(ReplaceRuns(toLowerCase(title))) \o <<"-">>
    \o Decimal(timestamp)

\* the slug derivation of articleSchema.pre("save") in src/unnamed/part_000
articleSlugV0(title) == StripHyphens(ReplaceRuns(toLowerCase(title)))

\* One pattern character against one subject character under the "i" flag:
\* "." matches any character, every other character of the alphabet used
\* here is a literal.
RegExpCharMatch(p, c) ==
  \/ p = "."
  \/ toLowerCaseChar(p) = toLowerCaseChar(c)

\* new RegExp(`^${pattern}$`, "i").test(subject), for patterns over the
\* alphabet of CategoryNameInputs (literals and ".").
RegExpTest(pattern, subject) ==
  /\ Len(pattern) = Len(subject)
  /\ \A i \in DOMAIN pattern : RegExpCharMatch(pattern[i], subject[i])

Includes(seq, x) == \E i \in DOMAIN seq : seq[i] = x

Filter(seq, x) == SelectSeq(seq, LAMBDA e : e # x)

Max(a, b) == IF a >= b THEN a ELSE b

----------------------------------------------------------------------------
(* Request inputs *)

\* userId values carried by like / unlike requests
UserIds == {<<"u">>, <<"<", "u", ">">>, <<"v">>}

\* categoryName values carried by category requests
CategoryNameInputs ==
  { <<"a", "b", "c">>, <<"A", "B", "C">>, <<"a", ".", "c">>,
    <<"a", "-", "c">>, <<"a", "b">>, <<" ">>, <<"-", "-", "-">> }

\* category values carried by article requests (<<>> is "field missing")
ArticleCategoryInputs == { <<"a", "b", "c">>, <<"a", ".", "c">>, <<>> }

\* the category the article requests carry where it is of no interest
PlainCategory == <<"a", "b", "c">>

\* the title the article requests carry where the title is of no interest
PlainTitle == <<"a", "b", "c", "0", "1">>

\* title values carried by article requests
ArticleTitleInputs ==
  { PlainTitle, <<"A", "B", "C", "0", "1">>, <<".", ".", ".", ".", ".">>,
    <<"a", "b">> }

\* the values Date.now() returns
MaxClock ==
  1

Timestamps == 0 .. MaxClock

\* every category label a stored article can carry
CategoryLabels == { Trim(sanitizeInput(c)) : c \in ArticleCategoryInputs }

----------------------------------------------------------------------------
(* State *)

VARIABLES
  articles,      \* the Article collection: _id -> stored document
  categories,    \* the Category collection: _id -> stored document
  nextArticle,   \* number of Article ids handed out so far
  nextCategory,  \* number of Category ids handed out so far
  pendingViews,  \* Article _id -> { $inc: { views: 1 } } updates dispatched
                 \* with .exec() and not yet applied by the store
  pendingCount,  \* categoryName -> { $inc: { articleCount: 1 } } updates
                 \* dispatched with .exec() and not yet applied by the store
  req,           \* slot -> the request in flight in it
  res,           \* the response sent last
  nreq,          \* number of requests received so far
  comments,      \* the Comment collection: _id -> stored document
  nextComment,   \* number of Comment ids handed out so far
  server,        \* the process: the store connection and the listener
  destroyed      \* the media service: the assets destroyed so far, each
                 \* <<article _id, public id>>

vars ==
  <<articles, categories, nextArticle, nextCategory, pendingViews,
    pendingCount, req, res, nreq, comments, nextComment, server,
    destroyed>>

NoDoc ==
  [category |-> <<>>, title |-> <<>>, slug |-> <<>>, views |-> -1,
   likes |-> -1, likedBy |-> <<>>, v |-> -1, asset |-> -1]

\* A slot in which no request is in flight.
IdleRequest ==
  [pc |-> "done", op |-> "none", id |-> 0, name |-> <<>>, snap |-> NoDoc,
   removed |-> "n/a", decremented |-> "n/a", title |-> <<>>,
   destroy |-> "n/a", media |-> "n/a", text |-> <<>>, asset |-> -1]

NoResponse ==
  [n |-> 0, op |-> "none", id |-> 0, name |-> <<>>, status |-> 0,
   message |-> "", data |-> -1, removed |-> "n/a", decremented |-> "n/a",
   query |-> <<>>, items |-> <<>>, total |-> 0, totalPages |-> 0,
   destroy |-> "n/a", err |-> "", stack |-> FALSE, error |-> FALSE]

\* connectDB(retries = 5)
StartRetries ==
  5

\* The process once index.js has been evaluated: connectDB() has been
\* called and its mongoose.connect is pending; app.listen has been called
\* unless NODE_ENV is "production".
Started(production) ==
  [store |-> "connecting", retries |-> StartRetries,
   listening |-> ~production, running |-> TRUE,
   mode |-> IF production THEN "production" ELSE "unset", exit |-> -1]

\* The process once mongoose.connect has resolved at the first attempt.
Serving == [Started(FALSE) EXCEPT !.store = "connected"]

\* The empty content store and no request in flight.
InitStore ==
  /\ articles = <<>>
  /\ categories = <<>>
  /\ nextArticle = 0
  /\ nextCategory = 0
  /\ pendingViews = [a \in 1 .. MaxArticles |-> 0]
  /\ pendingCount = [n \in CategoryLabels |-> 0]
  /\ req = [r \in Slots |-> IdleRequest]
  /\ res = NoResponse
  /\ nreq = 0
  /\ comments = <<>>
  /\ nextComment = 0
  /\ destroyed = {}

\* The server up and connected, the store empty.
Init ==
  /\ InitStore
  /\ server = Serving

\* The process accepts connections.
Accepting == server.running /\ server.listening

\* A request is received in a free slot.
Receive(r) ==
  /\ Accepting
  /\ req[r].pc = "done"
  /\ nreq < MaxRequests
  /\ nreq' = nreq + 1

\* res.status(status).json({ message, data }) ends the request in slot r.
Respond(r, op, id, name, status, message, data) ==
  /\ req' = [req EXCEPT ![r] = IdleRequest]
  /\ res' = [NoResponse EXCEPT !.n = res.n + 1, !.op = op, !.id = id,
               !.name = name, !.status = status, !.message = message,
               !.data = data]

\* The handler awaits its next store call with `doc` loaded.
Await(r, pc, op, id, name, doc) ==
  /\ req' = [req EXCEPT ![r] =
               [IdleRequest EXCEPT !.pc = pc, !.op = op, !.id = id,
                  !.name = name, !.snap = doc]]
  /\ res' = res

\* A response was sent in the step.
Responded == res'.n = res.n + 1

----------------------------------------------------------------------------
(* POST /api/articles/:id/like *)

\* Mutant of AlreadyLiked: the duplicate check is left out.
AlreadyLikedUnchecked(doc, userIdentifier) == FALSE

\* article.likedBy.includes(userIdentifier)
AlreadyLiked(doc, userIdentifier) == Includes(doc.likedBy, userIdentifier)

\* `guest_${req.ip}`
GuestOf(origin) == <<"g", "u", "e", "s", "t", "_">> \o origin

\* `guest_${req.ip}_${Date.now()}`
GuestAt(origin, timestamp) ==
  GuestOf(origin) \o <<"_">> \o Decimal(timestamp)

\* network origins (req.ip) of the callers that send no userId
Origins == { <<"7">>, <<"8">> }

\* validateObjectId, await Article.findById, the two early returns, and
\* the in-memory change of the loaded document, for the identity
\* userIdentifier
LikeAs(r, id, userIdentifier) ==
  /\ Receive(r)
  /\ IF ~validateObjectId(id)
         THEN Respond(r, "like", id, <<>>, 400,
                      "Invalid article ID format", -1)
       ELSE IF id \notin DOMAIN articles
         THEN Respond(r, "like", id, userIdentifier, 404,
                      "Article not found", -1)
       ELSE IF AlreadyLiked(articles[id], userIdentifier)
         THEN Respond(r, "like", id, userIdentifier, 400,
                      "You have already liked this article", -1)
       ELSE Await(r, "save", "like", id, userIdentifier, articles[id])
  /\ UNCHANGED <<articles, categories, nextArticle, nextCategory,
                 pendingViews, pendingCount>>
  /\ UNCHANGED <<server, comments, nextComment, destroyed>>

\* The caller sends userId: userIdentifier = sanitizeInput(userId).
LikeFind(r, id, userId) == LikeAs(r, id, sanitizeInput(userId))

\* The caller sends no userId:
\* userIdentifier = `guest_${req.ip}_${Date.now()}`.
LikeFindGuest(r, id, origin, timestamp) ==
  LikeAs(r, id, GuestAt(origin, timestamp))

\* Mutant of LikeWrite: the counter is raised but the identity is not stored.
LikeWriteCountOnly(stored, snap, userIdentifier) ==
  [stored EXCEPT !.likes = snap.likes + 1, !.v = @ + 1]

\* Mutant of LikeWrite: save() writes the whole loaded document back.
LikeWriteWhole(stored, snap, userIdentifier) ==
  [snap EXCEPT !.likes = snap.likes + 1,
               !.likedBy = Append(@, userIdentifier),
               !.v = stored.v + 1]

\* What article.save() writes for the like: the modified paths only,
\* { $set: { likes }, $push: { likedBy }, $inc: { __v: 1 } } filtered by _id.
LikeWrite(stored, snap, userIdentifier) ==
  [stored EXCEPT !.likes = snap.likes + 1,
                 !.likedBy = Append(@, userIdentifier),
                 !.v = @ + 1]

\* await article.save() and the success response
LikeSave(r) ==
  /\ req[r].pc = "save"
  /\ req[r].op = "like"
  /\ LET id == req[r].id
         userIdentifier == req[r].name
     IN  IF id \in DOMAIN articles
           THEN /\ articles' =
                     [articles EXCEPT
                        ![id] = LikeWrite(@, req[r].snap, userIdentifier)]
                /\ Respond(r, "like", id, userIdentifier, 200,
                           "Article liked successfully",
                           req[r].snap.likes + 1)
           ELSE \* the document is gone: save() rejects, default 500
                /\ articles' = articles
                /\ Respond(r, "like", id, userIdentifier, 500,
                           "No document found", -1)
  /\ UNCHANGED <<categories, nextArticle, nextCategory, pendingViews,
                 pendingCount, nreq>>
  /\ UNCHANGED <<server, comments, nextComment, destroyed>>

----------------------------------------------------------------------------
(* POST /api/articles/:id/unlike *)

UnlikeAs(r, id, userIdentifier) ==
  /\ Receive(r)
  /\ IF ~validateObjectId(id)
         THEN Respond(r, "unlike", id, <<>>, 400,
                      "Invalid article ID format", -1)
       ELSE IF id \notin DOMAIN articles
         THEN Respond(r, "unlike", id, userIdentifier, 404,
                      "Article not found", -1)
       ELSE IF ~AlreadyLiked(articles[id], userIdentifier)
         THEN Respond(r, "unlike", id, userIdentifier, 400,
                      "You haven't liked this article", -1)
       ELSE Await(r, "save", "unlike", id, userIdentifier, articles[id])
  /\ UNCHANGED <<articles, categories, nextArticle, nextCategory,
                 pendingViews, pendingCount>>
  /\ UNCHANGED <<server, comments, nextComment, destroyed>>

\* The caller sends userId: userIdentifier = sanitizeInput(userId).
UnlikeFind(r, id, userId) == UnlikeAs(r, id, sanitizeInput(userId))

\* The caller sends no userId: userIdentifier = `guest_${req.ip}`.
UnlikeFindGuest(r, id, origin) == UnlikeAs(r, id, GuestOf(origin))

\* Mutant of UnlikeWrite: the identity is removed but likes keeps its value.
UnlikeWriteKeepsCount(stored, snap, userIdentifier) ==
  [stored EXCEPT !.likedBy = Filter(snap.likedBy, userIdentifier),
                 !.v = @ + 1]

\* What article.save() writes for the unlike.  likedBy is assigned a new
\* array, so the update is { $set: { likes, likedBy }, $inc: { __v: 1 } }
\* filtered by _id and by the __v that was loaded.
UnlikeWrite(stored, snap, userIdentifier) ==
  [stored EXCEPT !.likes = Max(0, snap.likes - 1),
                 !.likedBy = Filter(snap.likedBy, userIdentifier),
                 !.v = @ + 1]

\* await article.save() and the success response
UnlikeSave(r) ==
  /\ req[r].pc = "save"
  /\ req[r].op = "unlike"
  /\ LET id == req[r].id
         userIdentifier == req[r].name
     IN  IF id \in DOMAIN articles /\ articles[id].v = req[r].snap.v
           THEN /\ articles' =
                     [articles EXCEPT
                        ![id] = UnlikeWrite(@, req[r].snap, userIdentifier)]
                /\ Respond(r, "unlike", id, userIdentifier, 200,
                           "Article unliked successfully",
                           Max(0, req[r].snap.likes - 1))
           ELSE \* no document with that _id and __v: save() rejects, 500
                /\ articles' = articles
                /\ Respond(r, "unlike", id, userIdentifier, 500,
                           "No matching document found", -1)
  /\ UNCHANGED <<categories, nextArticle, nextCategory, pendingViews,
                 pendingCount, nreq>>
  /\ UNCHANGED <<server, comments, nextComment, destroyed>>

----------------------------------------------------------------------------
(* POST /api/articles/:id/view *)

\* { $inc: { views: 1 } }
IncViews(doc) == [doc EXCEPT !.views = @ + 1]

\* Mutant of ViewArticle: the null result of findByIdAndUpdate is not
\* checked.
ViewArticleUnchecked(r, id) ==
  /\ Receive(r)
  /\ IF ~validateObjectId(id)
       THEN /\ Respond(r, "view", id, <<>>, 400,
                       "Invalid article ID format", -1)
            /\ articles' = articles
     ELSE IF id \notin DOMAIN articles
       THEN /\ Respond(r, "view", id, <<>>, 200,
                       "View tracked successfully", -1)
            /\ articles' = articles
     ELSE /\ articles' = [articles EXCEPT ![id] = IncViews(@)]
          /\ Respond(r, "view", id, <<>>, 200, "View tracked successfully",
                     articles'[id].views)
  /\ UNCHANGED <<categories, nextArticle, nextCategory, pendingViews,
                 pendingCount>>
  /\ UNCHANGED <<server, comments, nextComment, destroyed>>

\* Article.findByIdAndUpdate(id, { $inc: { views: 1 } }, { new: true })
ViewArticle(r, id) ==
  /\ Receive(r)
  /\ IF ~validateObjectId(id)
       THEN /\ Respond(r, "view", id, <<>>, 400,
                       "Invalid article ID format", -1)
            /\ articles' = articles
     ELSE IF id \notin DOMAIN articles
       THEN /\ Respond(r, "view", id, <<>>, 404, "Article not found", -1)
            /\ articles' = articles
     ELSE /\ articles' = [articles EXCEPT ![id] = IncViews(@)]
          /\ Respond(r, "view", id, <<>>, 200, "View tracked successfully",
                     articles'[id].views)
  /\ UNCHANGED <<categories, nextArticle, nextCategory, pendingViews,
                 pendingCount>>
  /\ UNCHANGED <<server, comments, nextComment, destroyed>>

----------------------------------------------------------------------------
(* GET /api/articles/:id *)

\* findById(...).lean(), then the view increment is dispatched with .exec()
\* and the response is sent without waiting for it.
GetArticle(r, id) ==
  /\ Receive(r)
  /\ IF ~validateObjectId(id)
       THEN /\ Respond(r, "get", id, <<>>, 400,
                       "Invalid article ID format", -1)
            /\ pendingViews' = pendingViews
     ELSE IF id \notin DOMAIN articles
       THEN /\ Respond(r, "get", id, <<>>, 404, "Article not found", -1)
            /\ pendingViews' = pendingViews
     ELSE /\ pendingViews' = [pendingViews EXCEPT ![id] = @ + 1]
          /\ Respond(r, "get", id, <<>>, 200, "", articles[id].views)
  /\ UNCHANGED <<articles, categories, nextArticle, nextCategory,
                 pendingCount>>
  /\ UNCHANGED <<server, comments, nextComment, destroyed>>

\* The store applies one dispatched { $inc: { views: 1 } }.
ApplyViewInc(id) ==
  /\ pendingViews[id] > 0
  /\ pendingViews' = [pendingViews EXCEPT ![id] = @ - 1]
  /\ articles' = IF id \in DOMAIN articles
                   THEN [articles EXCEPT ![id] = IncViews(@)]
                   ELSE articles
  /\ UNCHANGED <<categories, nextArticle, nextCategory, pendingCount, req,
                 res, nreq>>
  /\ UNCHANGED <<server, comments, nextComment, destroyed>>

----------------------------------------------------------------------------
(* The denormalised articleCount *)

\* the documents matched by the filter { categoryName: name }
CategoriesNamed(name) ==
  {c \in DOMAIN categories : categories[c].categoryName = name}

\* Category.findOneAndUpdate({ categoryName: name },
\*                           { $inc: { articleCount: d } })
\* Update validators are not run, so the schema's min: 0 is not applied.
IncArticleCount(name, d) ==
  IF CategoriesNamed(name) = {}
    THEN categories
    ELSE LET c == CHOOSE x \in CategoriesNamed(name) :
                    \A y \in CategoriesNamed(name) : x <= y
         IN  [categories EXCEPT ![c].articleCount = @ + d]

\* The store applies one dispatched { $inc: { articleCount: 1 } }.
ApplyCountInc(name) ==
  /\ pendingCount[name] > 0
  /\ pendingCount' = [pendingCount EXCEPT ![name] = @ - 1]
  /\ categories' = IncArticleCount(name, 1)
  /\ UNCHANGED <<articles, nextArticle, nextCategory, pendingViews, req,
                 res, nreq>>
  /\ UNCHANGED <<server, comments, nextComment, destroyed>>

----------------------------------------------------------------------------
(* POST /api/articles *)

\* What can be wrong with a create / update request besides its category:
\* a missing title, description or code; a missing avatar or img file; an
\* upload the media service rejects; a title or description the schema
\* rejects (minlength / maxlength).
Faults == {"none", "fields", "files", "upload", "schema"}

\* what cloudinary.uploader.destroy does with an article's assets: "fail"
\* when the call rejects
DestroyOutcomes == {"ok", "fail"}

\* cloudinary.uploader.destroy(publicId) for the asset publicId of the
\* article id: the asset is gone unless the call fails.
Destroy(id, publicId, destroy) ==
  IF destroy = "ok" THEN destroyed \cup {<<id, publicId>>} ELSE destroyed

NewArticle(category, title, slug) ==
  [category |-> category, title |-> title, slug |-> slug, views |-> 0,
   likes |-> 0, likedBy |-> <<>>, v |-> 0, asset |-> 0]

\* the schema's minlength / maxlength on title
ValidTitle(title) == Len(title) >= 5 /\ Len(title) <= 200

\* Mutant of ArticlesWithSlug: the collection has no unique index on slug.
ArticlesWithSlugUnindexed(slug) == {}

\* the documents holding a slug, as the unique index on slug sees them
ArticlesWithSlug(slug) == {a \in DOMAIN articles : articles[a].slug = slug}

\* The handler up to its response.  The uploads it awaits touch the media
\* service only, so the handler is one step of the store: Article.create
\* (the trim setters, validation, the pre("save") slug with Date.now() =
\* timestamp, the insert under the unique index on slug), then the
\* articleCount increment dispatched with .exec().
CreateArticle(r, title, timestamp, category, fault) ==
  /\ Receive(r)
  /\ LET label == Trim(sanitizeInput(category))
         heading == Trim(sanitizeInput(title))
         slug == articleSlug(heading, timestamp)
     IN
     IF category = <<>> \/ title = <<>> \/ fault = "fields"
       THEN /\ Respond(r, "create", 0, <<>>, 400,
                       "All fields are required", -1)
            /\ UNCHANGED <<articles, nextArticle, pendingCount>>
     ELSE IF fault = "files"
       THEN /\ Respond(r, "create", 0, <<>>, 400,
                       "Avatar and image files are required", -1)
            /\ UNCHANGED <<articles, nextArticle, pendingCount>>
     ELSE IF fault = "upload"
       THEN /\ Respond(r, "create", 0, <<>>, 500,
                       "Cloudinary upload failed", -1)
            /\ UNCHANGED <<articles, nextArticle, pendingCount>>
     ELSE IF fault = "schema" \/ label = <<>> \/ ~ValidTitle(heading)
       THEN /\ Respond(r, "create", 0, heading, 400, "Validation Error", -1)
            /\ UNCHANGED <<articles, nextArticle, pendingCount>>
     ELSE IF ArticlesWithSlug(slug) # {}
       THEN /\ Respond(r, "create", 0, heading, 409, "slug already exists",
                       -1)
            /\ UNCHANGED <<articles, nextArticle, pendingCount>>
     ELSE /\ nextArticle < MaxArticles
          /\ nextArticle' = nextArticle + 1
          /\ articles' =
               [a \in DOMAIN articles \cup {nextArticle'} |->
                  IF a = nextArticle' THEN NewArticle(label, heading, slug)
                                      ELSE articles[a]]
          /\ pendingCount' = [pendingCount EXCEPT ![label] = @ + 1]
          /\ Respond(r, "create", nextArticle', label, 201,
                     "Article created successfully", -1)
  /\ UNCHANGED <<categories, nextCategory, pendingViews>>
  /\ UNCHANGED <<server, comments, nextComment, destroyed>>

----------------------------------------------------------------------------
(* PUT /api/articles/:id *)

\* validateObjectId and await Article.findById; updateData is built from
\* the body (title and category are taken only when they are non-empty
\* strings).  With a file in the request (files), the replacement is
\* uploaded (fault "upload": the upload rejects) and becomes the asset
\* of updateData, named after the request; deleteFromCloudinary is then
\* called on the asset the loaded article refers to, and not awaited.
UpdateArticleFind(r, id, title, category, fault, files, destroy) ==
  /\ Receive(r)
  /\ fault \in {"none", "upload", "schema"}
  /\ IF ~validateObjectId(id)
       THEN /\ Respond(r, "update", id, <<>>, 400,
                       "Invalid article ID format", -1)
            /\ destroyed' = destroyed
     ELSE IF id \notin DOMAIN articles
       THEN /\ Respond(r, "update", id, <<>>, 404, "Article not found", -1)
            /\ destroyed' = destroyed
     ELSE IF fault = "upload"
       THEN /\ Respond(r, "update", id, <<>>, 500,
                       "Cloudinary upload failed", -1)
            /\ destroyed' = destroyed
     ELSE /\ req' = [req EXCEPT ![r] =
                       [IdleRequest EXCEPT
                          !.pc = IF fault = "schema" THEN "invalid"
                                                     ELSE "write",
                          !.op = "update", !.id = id,
                          !.name = sanitizeInput(category),
                          !.title = sanitizeInput(title),
                          !.asset = IF files THEN nreq' ELSE -1,
                          !.snap = articles[id]]]
          /\ res' = res
          /\ destroyed' = IF files
                            THEN Destroy(id, articles[id].asset, destroy)
                            ELSE destroyed
  /\ UNCHANGED <<articles, categories, nextArticle, nextCategory,
                 pendingViews, pendingCount>>
  /\ UNCHANGED <<server, comments, nextComment>>

\* What findByIdAndUpdate sets: the fields of updateData, cast by the
\* schema's trim setters (asset -1: no file was sent).  No save hook
\* runs, so slug keeps its value.
UpdateArticleSet(doc, title, category, asset) ==
  [doc EXCEPT
     !.title = IF title # <<>> THEN Trim(title) ELSE @,
     !.category = IF category # <<>> THEN Trim(category) ELSE @,
     !.asset = IF asset # -1 THEN asset ELSE @]

\* await Article.findByIdAndUpdate(id, updateData, { runValidators: true })
\* articleCount of neither the old nor the new category is touched.
UpdateArticleWrite(r) ==
  /\ req[r].pc \in {"write", "invalid"}
  /\ req[r].op = "update"
  /\ LET id == req[r].id
         given == req[r].name # <<>>
         label == Trim(req[r].name)
         titled == req[r].title # <<>>
         heading == Trim(req[r].title)
     IN  IF \/ req[r].pc = "invalid"
            \/ (given /\ label = <<>>)
            \/ (titled /\ ~ValidTitle(heading))
           THEN /\ articles' = articles
                /\ Respond(r, "update", id, label, 400,
                           "Validation Error", -1)
           ELSE /\ articles' =
                     IF id \in DOMAIN articles
                       THEN [articles EXCEPT
                               ![id] = UpdateArticleSet(@, req[r].title,
                                                        req[r].name,
                                                        req[r].asset)]
                       ELSE articles
                /\ Respond(r, "update", id, label, 200,
                           "Article updated successfully", -1)
  /\ UNCHANGED <<categories, nextArticle, nextCategory, pendingViews,
                 pendingCount, nreq>>
  /\ UNCHANGED <<server, comments, nextComment, destroyed>>

----------------------------------------------------------------------------
(* DELETE /api/articles/:id *)

\* deleteFromCloudinary: the catch block logs the rejection, so the promise
\* the handler waits for is fulfilled either way.
deleteFromCloudinary(destroy) == "fulfilled"

\* validateObjectId and await Article.findById; then the four calls of
\* Promise.all are issued, the media service answering with `destroy`.
DeleteArticleFind(r, id, destroy) ==
  /\ Receive(r)
  /\ IF ~validateObjectId(id)
       THEN Respond(r, "delete", id, <<>>, 400,
                    "Invalid article ID format", -1)
     ELSE IF id \notin DOMAIN articles
       THEN Respond(r, "delete", id, <<>>, 404, "Article not found", -1)
     ELSE /\ req' = [req EXCEPT ![r] =
                       [IdleRequest EXCEPT !.pc = "all", !.op = "delete",
                          !.id = id, !.name = articles[id].category,
                          !.snap = articles[id], !.removed = "pending",
                          !.decremented = "pending", !.destroy = destroy,
                          !.media = deleteFromCloudinary(destroy)]]
          /\ res' = res
  /\ destroyed' = IF validateObjectId(id) /\ id \in DOMAIN articles
                  THEN Destroy(id, articles[id].asset, destroy)
                  ELSE destroyed
  /\ UNCHANGED <<articles, categories, nextArticle, nextCategory,
                 pendingViews, pendingCount>>
  /\ UNCHANGED <<server, comments, nextComment>>

\* Promise.all is fulfilled when the last store call has returned and the
\* handler then answers 200; it is rejected when a media promise is
\* rejected and the error handler answers 500, the store calls that were
\* issued completing all the same (the model sends the 500 once they have).
DeleteArticleJoin(r, removed, decremented) ==
  IF removed # "pending" /\ decremented # "pending"
    THEN /\ req' = [req EXCEPT ![r] = IdleRequest]
         /\ res' = [NoResponse EXCEPT !.n = res.n + 1, !.op = req[r].op,
                      !.id = req[r].id, !.name = req[r].name,
                      !.status = IF req[r].media = "rejected" THEN 500
                                                              ELSE 200,
                      !.message = IF req[r].media = "rejected"
                                    THEN "Internal server error"
                                    ELSE "Article deleted successfully",
                      !.removed = removed, !.decremented = decremented,
                      !.destroy = req[r].destroy]
    ELSE /\ req' = [req EXCEPT ![r].removed = removed,
                               ![r].decremented = decremented]
         /\ res' = res

\* Article.findByIdAndDelete(id), one of the calls inside Promise.all
DeleteArticleRemove(r) ==
  /\ req[r].pc = "all"
  /\ req[r].removed = "pending"
  /\ LET id == req[r].id IN
       /\ articles' = [a \in DOMAIN articles \ {id} |-> articles[a]]
       /\ DeleteArticleJoin(r,
             IF id \in DOMAIN articles THEN "yes" ELSE "no",
             req[r].decremented)
  /\ UNCHANGED <<categories, nextArticle, nextCategory, pendingViews,
                 pendingCount, nreq>>
  /\ UNCHANGED <<server, comments, nextComment, destroyed>>

\* Category.findOneAndUpdate({ categoryName: article.category },
\*   { $inc: { articleCount: -1 } }), one of the calls inside Promise.all
DeleteArticleDecrement(r) ==
  /\ req[r].pc = "all"
  /\ req[r].decremented = "pending"
  /\ categories' = IncArticleCount(req[r].snap.category, -1)
  /\ DeleteArticleJoin(r, req[r].removed,
        IF CategoriesNamed(req[r].snap.category) # {} THEN "yes" ELSE "no")
  /\ UNCHANGED <<articles, nextArticle, nextCategory, pendingViews,
                 pendingCount, nreq>>
  /\ UNCHANGED <<server, comments, nextComment, destroyed>>

----------------------------------------------------------------------------
(* POST /api/categories *)

CategoryRequestIds == 0 .. MaxCategories

\* Category.findOne({ categoryName: { $regex: new RegExp(`^${name}$`, "i") },
\*                    _id: { $ne: except } })
FindCategoryByRegExp(name, except) ==
  {c \in DOMAIN categories \ {except} :
     RegExpTest(name, categories[c].categoryName)}

\* requests that passed the existence check and have not inserted yet
CreatingCategory ==
  {s \in Slots : req[s].op = "createCategory" /\ req[s].pc = "insert"}

\* the schema's minlength / maxlength on categoryName
ValidCategoryName(name) == Len(name) >= 3 /\ Len(name) <= 50

\* the emptiness check, sanitizeInput and await Category.findOne
CreateCategoryFind(r, categoryName) ==
  /\ Receive(r)
  /\ nextCategory + Cardinality(CreatingCategory) < MaxCategories
  /\ LET sanitizedName == sanitizeInput(categoryName) IN
       IF categoryName = <<>> \/ Trim(categoryName) = <<>>
         THEN Respond(r, "createCategory", 0, <<>>, 400,
                      "Category name is required", -1)
       ELSE IF FindCategoryByRegExp(sanitizedName, 0) # {}
         THEN Respond(r, "createCategory", 0, sanitizedName, 409,
                      "Category already exists", -1)
       ELSE Await(r, "insert", "createCategory", 0, sanitizedName, NoDoc)
  /\ UNCHANGED <<articles, categories, nextArticle, nextCategory,
                 pendingViews, pendingCount>>
  /\ UNCHANGED <<server, comments, nextComment, destroyed>>

\* await Category.create({ categoryName }): the trim setter, validation,
\* the pre("save") slug, then the insert under the unique indexes on
\* categoryName and slug; the global error handler turns a
\* ValidationError into 400 and a duplicate key into 409.
CreateCategoryInsert(r) ==
  /\ req[r].pc = "insert"
  /\ req[r].op = "createCategory"
  /\ LET name == Trim(req[r].name)
         slug == categorySlug(name)
     IN  IF ~ValidCategoryName(name)
           THEN /\ Respond(r, "createCategory", 0, name, 400,
                           "Validation Error", -1)
                /\ UNCHANGED <<categories, nextCategory>>
         ELSE IF \E c \in DOMAIN categories :
                   categories[c].categoryName = name
           THEN /\ Respond(r, "createCategory", 0, name, 409,
                           "categoryName already exists", -1)
                /\ UNCHANGED <<categories, nextCategory>>
         ELSE IF \E c \in DOMAIN categories : categories[c].slug = slug
           THEN /\ Respond(r, "createCategory", 0, name, 409,
                           "slug already exists", -1)
                /\ UNCHANGED <<categories, nextCategory>>
         ELSE /\ nextCategory' = nextCategory + 1
              /\ categories' =
                   [c \in DOMAIN categories \cup {nextCategory'} |->
                      IF c = nextCategory'
                        THEN [categoryName |-> name, slug |-> slug,
                              articleCount |-> 0]
                        ELSE categories[c]]
              /\ Respond(r, "createCategory", nextCategory', name, 201,
                         "Category created successfully", -1)
  /\ UNCHANGED <<articles, nextArticle, pendingViews, pendingCount, nreq>>
  /\ UNCHANGED <<server, comments, nextComment, destroyed>>

----------------------------------------------------------------------------
(* PUT /api/categories/:id *)

UpdateCategoryFind(r, id, categoryName) ==
  /\ Receive(r)
  /\ LET sanitizedName == sanitizeInput(categoryName) IN
       IF ~validateObjectId(id)
         THEN Respond(r, "updateCategory", id, <<>>, 400,
                      "Invalid category ID format", -1)
       ELSE IF categoryName = <<>> \/ Trim(categoryName) = <<>>
         THEN Respond(r, "updateCategory", id, <<>>, 400,
                      "Category name is required", -1)
       ELSE IF FindCategoryByRegExp(sanitizedName, id) # {}
         THEN Respond(r, "updateCategory", id, sanitizedName, 409,
                      "Category name already exists", -1)
       ELSE Await(r, "write", "updateCategory", id, sanitizedName, NoDoc)
  /\ UNCHANGED <<articles, categories, nextArticle, nextCategory,
                 pendingViews, pendingCount>>
  /\ UNCHANGED <<server, comments, nextComment, destroyed>>

\* await Category.findByIdAndUpdate(id, { categoryName },
\*                                  { new: true, runValidators: true })
\* No save hook runs, so slug keeps its value.
UpdateCategoryWrite(r) ==
  /\ req[r].pc = "write"
  /\ req[r].op = "updateCategory"
  /\ LET id == req[r].id
         name == Trim(req[r].name)
     IN  IF ~ValidCategoryName(name)
           THEN /\ Respond(r, "updateCategory", id, name, 400,
                           "Validation Error", -1)
                /\ categories' = categories
         ELSE IF id \notin DOMAIN categories
           THEN /\ Respond(r, "updateCategory", id, name, 404,
                           "Category not found", -1)
                /\ categories' = categories
         ELSE IF \E c \in DOMAIN categories \ {id} :
                   categories[c].categoryName = name
           THEN /\ Respond(r, "updateCategory", id, name, 409,
                           "categoryName already exists", -1)
                /\ categories' = categories
         ELSE /\ categories' = [categories EXCEPT ![id].categoryName = name]
              /\ Respond(r, "updateCategory", id, name, 200,
                         "Category updated successfully", -1)
  /\ UNCHANGED <<articles, nextArticle, nextCategory, pendingViews,
                 pendingCount, nreq>>
  /\ UNCHANGED <<server, comments, nextComment, destroyed>>

----------------------------------------------------------------------------
(* DELETE /api/categories/:id *)

\* validateObjectId and await Category.findByIdAndDelete
DeleteCategory(r, id) ==
  /\ Receive(r)
  /\ IF ~validateObjectId(id)
       THEN /\ Respond(r, "deleteCategory", id, <<>>, 400,
                       "Invalid category ID format", -1)
            /\ categories' = categories
     ELSE IF id \notin DOMAIN categories
       THEN /\ Respond(r, "deleteCategory", id, <<>>, 404,
                       "Category not found", -1)
            /\ categories' = categories
     ELSE /\ categories' = [c \in DOMAIN categories \ {id} |-> categories[c]]
          /\ Respond(r, "deleteCategory", id, <<>>, 200,
                     "Category deleted successfully", -1)
  /\ UNCHANGED <<articles, nextArticle, nextCategory, pendingViews,
                 pendingCount>>
  /\ UNCHANGED <<server, comments, nextComment, destroyed>>

----------------------------------------------------------------------------
(* GET /api/articles *)

\* the characters of the model's alphabet in ascending code unit order
CodeUnits ==
  <<" ", "-", ".", "0", "1", "2", "3", "4", "5", "6", "7", "8", "9", "<",
    ">", "A", "B", "C", "a", "b", "c", "u", "v">>

CodeUnit(c) == CHOOSE i \in DOMAIN CodeUnits : CodeUnits[i] = c

\* the store's order on strings: s sorts at or after t
RECURSIVE StringAtLeast(_, _)
StringAtLeast(s, t) ==
  IF t = <<>> THEN TRUE
  ELSE IF s = <<>> THEN FALSE
  ELSE IF Head(s) = Head(t) THEN StringAtLeast(Tail(s), Tail(t))
  ELSE CodeUnit(Head(s)) > CodeUnit(Head(t))

validSortFields == {"createdAt", "views", "likes", "title"}

\* sortBy values carried by list requests
SortInputs == {"createdAt", "views", "title", "slug"}

\* Math.min(+limit, 50)
PageSizeCap ==
  50

Min(a, b) == IF a <= b THEN a ELSE b

\* The document a may come before the document b under
\* .sort({ [sortField]: -1 }); createdAt follows the order of creation,
\* which is the order of the ids.
SortsBefore(a, b, sortField) ==
  CASE sortField = "views" -> articles[a].views >= articles[b].views
    [] sortField = "likes" -> articles[a].likes >= articles[b].likes
    [] sortField = "title" ->
         StringAtLeast(articles[a].title, articles[b].title)
    [] OTHER -> a >= b

\* the documents Article.find(query) matches
Matching(category) ==
  {a \in DOMAIN articles :
     category # <<>> => articles[a].category = Trim(sanitizeInput(category))}

\* the orders in which the store may return the documents of S under the
\* sort; documents with equal keys come in any order
SortedOrders(S, sortField) ==
  {o \in [1 .. Cardinality(S) -> S] :
     /\ \A i, j \in DOMAIN o : i # j => o[i] # o[j]
     /\ \A i, j \in DOMAIN o : i < j => SortsBefore(o[i], o[j], sortField)}

\* Mutant of Skip: the page number is not reduced by one.
SkipWholePages(page, limit) == Max(1, page) * Min(limit, PageSizeCap)

\* (Math.max(1, +page) - 1) * Math.min(+limit, 50)
Skip(page, limit) == (Max(1, page) - 1) * Min(limit, PageSizeCap)

\* .limit(limitValue).skip(skip) applied to the sorted documents: a limit
\* of 0 is no limit, a negative limit stands for its absolute value
Page(order, skip, limitValue) ==
  IF limitValue = 0 THEN SubSeq(order, skip + 1, Len(order))
  ELSE IF limitValue < 0
    THEN SubSeq(order, skip + 1, Min(skip - limitValue, Len(order)))
  ELSE SubSeq(order, skip + 1, Min(skip + limitValue, Len(order)))

\* Math.ceil(total / limitValue) as JSON: Infinity and NaN are written as
\* null
Ceil(total, limitValue) ==
  IF limitValue = 0 THEN "null"
  ELSE IF limitValue < 0 THEN 0 - (total \div (0 - limitValue))
  ELSE (total + limitValue - 1) \div limitValue

\* The handler: the query, the sort field, skip and limit, then find and
\* countDocuments awaited together, and the response.
ListArticles(r, category, page, limit, sortBy) ==
  /\ Receive(r)
  /\ LET sortField == IF sortBy \in validSortFields THEN sortBy
                                                   ELSE "createdAt"
         limitValue == Min(limit, PageSizeCap)
         found == Matching(category)
     IN  \E order \in SortedOrders(found, sortField) :
           /\ req' = [req EXCEPT ![r] = IdleRequest]
           /\ res' = [NoResponse EXCEPT
                        !.n = res.n + 1, !.op = "list", !.status = 200,
                        !.query = [category |-> category, page |-> page,
                                   limit |-> limit, sortBy |-> sortBy],
                        !.items = Page(order, Skip(page, limit), limitValue),
                        !.total = Cardinality(found),
                        !.totalPages = Ceil(Cardinality(found), limitValue)]
  /\ UNCHANGED <<articles, categories, nextArticle, nextCategory,
                 pendingViews, pendingCount, comments, nextComment, server,
                 destroyed>>

----------------------------------------------------------------------------
(* POST /api/articles/:id/comments *)

MaxComments ==
  2

\* user and text values carried by comment requests (<<>> is "field
\* missing")
CommentUserInputs == { <<"u", "v">>, <<"<", ">">>, <<" ">>, <<>> }

CommentTextInputs == { <<"a">>, <<>> }

\* commentSchema: user and text are required and bounded in length
ValidComment(user, text) ==
  /\ Len(user) >= 2 /\ Len(user) <= 50
  /\ Len(text) >= 1 /\ Len(text) <= 1000

\* validateObjectId, the check of user and text, and
\* await Article.exists({ _id })
CreateCommentFind(r, id, user, text) ==
  /\ Receive(r)
  /\ IF ~validateObjectId(id)
       THEN Respond(r, "comment", id, <<>>, 400,
                    "Invalid article ID format", -1)
     ELSE IF user = <<>> \/ text = <<>> \/ Trim(user) = <<>>
              \/ Trim(text) = <<>>
       THEN Respond(r, "comment", id, <<>>, 400,
                    "User name and comment text are required", -1)
     ELSE IF id \notin DOMAIN articles
       THEN Respond(r, "comment", id, <<>>, 404, "Article not found", -1)
     ELSE /\ req' = [req EXCEPT ![r] =
                       [IdleRequest EXCEPT
                          !.pc = "comment", !.op = "comment", !.id = id,
                          !.name = sanitizeInput(user),
                          !.text = sanitizeInput(text)]]
          /\ res' = res
  /\ UNCHANGED <<articles, categories, nextArticle, nextCategory,
                 pendingViews, pendingCount>>
  /\ UNCHANGED <<server, comments, nextComment, destroyed>>

\* await Comment.create({ articleId, user, text }): the trim setters,
\* validation, the insert; the global error handler turns a
\* ValidationError into 400.
CreateCommentInsert(r) ==
  /\ req[r].pc = "comment"
  /\ LET user == Trim(req[r].name)
         text == Trim(req[r].text)
     IN
     IF ~ValidComment(user, text)
       THEN /\ Respond(r, "comment", req[r].id, user, 400,
                       "Validation Error", -1)
            /\ UNCHANGED <<comments, nextComment>>
     ELSE /\ nextComment < MaxComments
          /\ nextComment' = nextComment + 1
          /\ comments' =
               [c \in DOMAIN comments \cup {nextComment'} |->
                  IF c = nextComment'
                    THEN [articleId |-> req[r].id, user |-> user,
                          text |-> text, likes |-> 0]
                    ELSE comments[c]]
          /\ Respond(r, "comment", req[r].id, user, 201,
                     "Comment added successfully", nextComment')
  /\ UNCHANGED <<articles, categories, nextArticle, nextCategory,
                 pendingViews, pendingCount, nreq, server,
                 destroyed>>

----------------------------------------------------------------------------
(* GET /api/articles/:id/comments *)

\* Mutant of CommentsOf: comments are found through their article.
CommentsOfStored(id) ==
  {c \in DOMAIN comments :
     comments[c].articleId = id /\ id \in DOMAIN articles}

\* the documents Comment.find({ articleId }) matches
CommentsOf(id) == {c \in DOMAIN comments : comments[c].articleId = id}

\* .sort({ createdAt: -1 }); createdAt follows the order of creation,
\* which is the order of the ids
RECURSIVE NewestFirst(_)
NewestFirst(S) ==
  IF S = {} THEN <<>>
  ELSE LET newest == CHOOSE c \in S : \A d \in S : c >= d
       IN  <<newest>> \o NewestFirst(S \ {newest})

\* limit when the query has none
DefaultCommentLimit ==
  20

\* validateObjectId, then Comment.find and Comment.countDocuments
ListComments(r, id, page, limit) ==
  /\ Receive(r)
  /\ IF ~validateObjectId(id)
       THEN Respond(r, "comments", id, <<>>, 400,
                    "Invalid article ID format", -1)
     ELSE LET limitValue == Min(limit, PageSizeCap)
              found == CommentsOf(id)
          IN  /\ req' = [req EXCEPT ![r] = IdleRequest]
              /\ res' = [NoResponse EXCEPT
                           !.n = res.n + 1, !.op = "comments", !.id = id,
                           !.status = 200,
                           !.query = [page |-> page, limit |-> limit],
                           !.items = Page(NewestFirst(found),
                                          Skip(page, limit), limitValue),
                           !.total = Cardinality(found),
                           !.totalPages =
                             Ceil(Cardinality(found), limitValue)]
  /\ UNCHANGED <<articles, categories, nextArticle, nextCategory,
                 pendingViews, pendingCount, comments, nextComment, server,
                 destroyed>>

----------------------------------------------------------------------------
(* GET /api/articles/most-viewed *)

\* limit when the query has none
DefaultMostViewedLimit ==
  10

\* Article.find().sort({ views: -1 }).limit(Math.min(+limit, 50))
MostViewed(r, limit) ==
  /\ Receive(r)
  /\ \E order \in SortedOrders(DOMAIN articles, "views") :
       /\ req' = [req EXCEPT ![r] = IdleRequest]
       /\ res' = [NoResponse EXCEPT
                    !.n = res.n + 1, !.op = "mostViewed", !.status = 200,
                    !.query = [limit |-> limit],
                    !.items = Page(order, 0, Min(limit, PageSizeCap))]
  /\ UNCHANGED <<articles, categories, nextArticle, nextCategory,
                 pendingViews, pendingCount, comments, nextComment, server,
                 destroyed>>

----------------------------------------------------------------------------
(* The 404 handler and the global error handler *)

\* values of process.env.NODE_ENV ("unset" is undefined)
Modes == {"development", "production", "test", "unset"}

\* Errors that reach the error handler: name, code, status (0 is
\* undefined), whether it is a MulterError, whether its message includes
\* "CORS".
Thrown(name, code, status, multer, cors) ==
  [name |-> name, code |-> code, status |-> status, multer |-> multer,
   cors |-> cors]

ErrorInputs ==
  { Thrown("ValidationError", 0, 0, FALSE, FALSE),
    Thrown("CastError", 0, 0, FALSE, FALSE),
    Thrown("MongoServerError", 11000, 0, FALSE, FALSE),
    Thrown("MulterError", 0, 0, TRUE, FALSE),
    Thrown("Error", 0, 0, FALSE, TRUE),
    Thrown("JsonWebTokenError", 0, 0, FALSE, FALSE),
    Thrown("TokenExpiredError", 0, 0, FALSE, FALSE),
    Thrown("SyntaxError", 0, 400, FALSE, FALSE),
    Thrown("DocumentNotFoundError", 0, 0, FALSE, FALSE),
    Thrown("Error", 0, 0, FALSE, FALSE) }

\* the body of an error response
ErrorBody(status, message, stack, error) ==
  [status |-> status, message |-> message, stack |-> stack,
   error |-> error]

\* Mutant of Diagnostics: detail is left out in production only.
DiagnosticsUnlessProduction(mode) == mode # "production"

\* process.env.NODE_ENV === "development"
Diagnostics(mode) == mode = "development"

\* app.use((err, req, res, next) => ...) of index.js
errorHandler(err, mode) ==
  IF err.name = "ValidationError"
    THEN ErrorBody(400, "Validation Error", FALSE, FALSE)
  ELSE IF err.name = "CastError"
    THEN ErrorBody(400, "Invalid path: value", FALSE, FALSE)
  ELSE IF err.code = 11000
    THEN ErrorBody(409, "field already exists", FALSE, FALSE)
  ELSE IF err.multer
    THEN ErrorBody(400, "File upload error", FALSE, FALSE)
  ELSE IF err.cors
    THEN ErrorBody(403, "CORS: Origin not allowed", FALSE, FALSE)
  ELSE IF err.name = "JsonWebTokenError"
    THEN ErrorBody(401, "Invalid token", FALSE, FALSE)
  ELSE IF err.name = "TokenExpiredError"
    THEN ErrorBody(401, "Token expired", FALSE, FALSE)
  ELSE ErrorBody(IF err.status # 0 THEN err.status ELSE 500, "err.message",
                 Diagnostics(mode), Diagnostics(mode))

\* app.use((err, req, res, next) => ...) of part_000
errorHandlerV0(err, mode) ==
  IF err.name = "ValidationError"
    THEN ErrorBody(400, "Validation Error", FALSE, FALSE)
  ELSE IF err.name = "CastError"
    THEN ErrorBody(400, "Invalid ID format", FALSE, FALSE)
  ELSE ErrorBody(IF err.status # 0 THEN err.status ELSE 500, "err.message",
                 Diagnostics(mode), FALSE)

\* res.status(body.status).json(body) for the error err
RespondError(r, op, err, body) ==
  /\ req' = [req EXCEPT ![r] = IdleRequest]
  /\ res' = [NoResponse EXCEPT !.n = res.n + 1, !.op = op,
               !.status = body.status, !.message = body.message,
               !.err = err.name, !.stack = body.stack,
               !.error = body.error]

\* A handler or a middleware fails with err: asyncHandler passes it to
\* next, and the error handler answers.
Throw(r, err) ==
  /\ Receive(r)
  /\ RespondError(r, "error", err, errorHandler(err, server.mode))
  /\ UNCHANGED <<articles, categories, nextArticle, nextCategory,
                 pendingViews, pendingCount, server, comments, nextComment,
                 destroyed>>

ThrowV0(r, err) ==
  /\ Receive(r)
  /\ RespondError(r, "errorV0", err, errorHandlerV0(err, server.mode))
  /\ UNCHANGED <<articles, categories, nextArticle, nextCategory,
                 pendingViews, pendingCount, server, comments, nextComment,
                 destroyed>>

\* app.use((req, res) => ...): no route matched
RouteNotFound(r) ==
  /\ Receive(r)
  /\ Respond(r, "none", 0, <<>>, 404, "Route not found", -1)
  /\ UNCHANGED <<articles, categories, nextArticle, nextCategory,
                 pendingViews, pendingCount, server, comments, nextComment,
                 destroyed>>

----------------------------------------------------------------------------
(* POST /api/articles/:id/like and /unlike of part_000 *)

\* userId || `guest_${req.ip}_${Date.now()}`, in both handlers
userIdentifierV0(userId, origin, timestamp) ==
  IF userId # <<>> THEN userId ELSE GuestAt(origin, timestamp)

\* await Article.findById (a malformed id is a CastError, 400) and the
\* two early returns; article.save() is the one of LikeSave.
LikeV0Find(r, id, userId, origin, timestamp) ==
  /\ Receive(r)
  /\ LET userIdentifier == userIdentifierV0(userId, origin, timestamp) IN
       IF ~validateObjectId(id)
         THEN Respond(r, "likeV0", id, <<>>, 400, "Invalid ID format", -1)
       ELSE IF id \notin DOMAIN articles
         THEN Respond(r, "likeV0", id, userIdentifier, 404,
                      "Article not found", -1)
       ELSE IF AlreadyLiked(articles[id], userIdentifier)
         THEN Respond(r, "likeV0", id, userIdentifier, 400,
                      "You have already liked this article", -1)
       ELSE Await(r, "save", "like", id, userIdentifier, articles[id])
  /\ UNCHANGED <<articles, categories, nextArticle, nextCategory,
                 pendingViews, pendingCount, comments, nextComment, server,
                 destroyed>>

\* await Article.findById and the two early returns; article.save() is
\* the one of UnlikeSave.
UnlikeV0Find(r, id, userId, origin, timestamp) ==
  /\ Receive(r)
  /\ LET userIdentifier == userIdentifierV0(userId, origin, timestamp) IN
       IF ~validateObjectId(id)
         THEN Respond(r, "unlikeV0", id, <<>>, 400, "Invalid ID format", -1)
       ELSE IF id \notin DOMAIN articles
         THEN Respond(r, "unlikeV0", id, userIdentifier, 404,
                      "Article not found", -1)
       ELSE IF ~AlreadyLiked(articles[id], userIdentifier)
         THEN Respond(r, "unlikeV0", id, userIdentifier, 400,
                      "You haven't liked this article", -1)
       ELSE Await(r, "save", "unlike", id, userIdentifier, articles[id])
  /\ UNCHANGED <<articles, categories, nextArticle, nextCategory,
                 pendingViews, pendingCount, comments, nextComment, server,
                 destroyed>>

----------------------------------------------------------------------------
(* PUT /api/articles/:id of part_000 *)

\* PUT /api/articles/:id: await Article.findById (a malformed id is a
\* CastError, 400); with a file in the request the asset the loaded
\* article refers to is destroyed first and awaited (a rejection is a
\* 500), then the replacement is uploaded (fault "upload": the upload
\* rejects, 500).  The findByIdAndUpdate that follows is the one of
\* UpdateArticleWrite.
UpdateArticleV0Find(r, id, title, fault, files, destroy) ==
  /\ Receive(r)
  /\ fault \in {"none", "upload"}
  /\ IF ~validateObjectId(id)
       THEN /\ Respond(r, "updateV0", id, <<>>, 400, "Invalid ID format",
                       -1)
            /\ destroyed' = destroyed
     ELSE IF id \notin DOMAIN articles
       THEN /\ Respond(r, "updateV0", id, <<>>, 404, "Article not found",
                       -1)
            /\ destroyed' = destroyed
     ELSE IF files /\ destroy = "fail"
       THEN /\ Respond(r, "updateV0", id, <<>>, 500, "destroy failed", -1)
            /\ destroyed' = destroyed
     ELSE IF files /\ fault = "upload"
       THEN /\ Respond(r, "updateV0", id, <<>>, 500,
                       "Cloudinary upload failed", -1)
            /\ destroyed' = Destroy(id, articles[id].asset, destroy)
     ELSE /\ req' = [req EXCEPT ![r] =
                       [IdleRequest EXCEPT
                          !.pc = "write", !.op = "update", !.id = id,
                          !.title = title,
                          !.asset = IF files THEN nreq' ELSE -1,
                          !.snap = articles[id]]]
          /\ res' = res
          /\ destroyed' = IF files
                            THEN Destroy(id, articles[id].asset, destroy)
                            ELSE destroyed
  /\ UNCHANGED <<articles, categories, nextArticle, nextCategory,
                 pendingViews, pendingCount, comments, nextComment, server>>

----------------------------------------------------------------------------
(* Route matching *)

\* app.METHOD(path, handler): a route, its path split at "/"
RouteOf(method, path, name) ==
  [method |-> method, path |-> path, name |-> name]

\* the routes of index.js in the order of their registration
Routes ==
  <<
     RouteOf("POST", <<"api", "categories">>, "POST /api/categories"),
     RouteOf("GET", <<"api", "categories">>, "GET /api/categories"),
     RouteOf("GET", <<"api", "categories", ":id">>, "GET /api/categories/:id"),
     RouteOf("PUT", <<"api", "categories", ":id">>, "PUT /api/categories/:id"),
     RouteOf("DELETE", <<"api", "categories", ":id">>, "DELETE /api/categories/:id"),
     RouteOf("GET", <<"api", "articles", "most-viewed">>, "GET /api/articles/most-viewed"),
     RouteOf("GET", <<"api", "articles", "liked">>, "GET /api/articles/liked"),
     RouteOf("GET", <<"api", "articles", "slug", ":slug">>, "GET /api/articles/slug/:slug"),
     RouteOf("GET", <<"api", "articles">>, "GET /api/articles"),
     RouteOf("POST", <<"api", "articles">>, "POST /api/articles"),
     RouteOf("GET", <<"api", "articles", ":id">>, "GET /api/articles/:id"),
     RouteOf("PUT", <<"api", "articles", ":id">>, "PUT /api/articles/:id"),
     RouteOf("DELETE", <<"api", "articles", ":id">>, "DELETE /api/articles/:id"),
     RouteOf("POST", <<"api", "articles", ":id", "like">>, "POST /api/articles/:id/like"),
     RouteOf("POST", <<"api", "articles", ":id", "unlike">>, "POST /api/articles/:id/unlike"),
     RouteOf("GET", <<"api", "articles", ":id", "like-status">>, "GET /api/articles/:id/like-status"),
     RouteOf("GET", <<"api", "articles", ":id", "like-stats">>, "GET /api/articles/:id/like-stats"),
     RouteOf("POST", <<"api", "articles", ":id", "view">>, "POST /api/articles/:id/view"),
     RouteOf("GET", <<"api", "articles", ":id", "view-stats">>, "GET /api/articles/:id/view-stats"),
     RouteOf("GET", <<"api", "articles", ":id", "comments">>, "GET /api/articles/:id/comments"),
     RouteOf("POST", <<"api", "articles", ":id", "comments">>, "POST /api/articles/:id/comments"),
     RouteOf("POST", <<"api", "comments", ":id", "like">>, "POST /api/comments/:id/like"),
     RouteOf("DELETE", <<"api", "comments", ":id">>, "DELETE /api/comments/:id"),
     RouteOf("GET", <<"api", "projects">>, "GET /api/projects"),
     RouteOf("GET", <<"api", "projects", ":id">>, "GET /api/projects/:id"),
     RouteOf("POST", <<"api", "articles", ":id", "share">>, "POST /api/articles/:id/share"),
     RouteOf("GET", <<>>, "GET /"),
     RouteOf("GET", <<"health">>, "GET /health") >>

\* the routes of part_000 in the order of their registration
RoutesV0 ==
  <<
     RouteOf("POST", <<"api", "categories">>, "POST /api/categories"),
     RouteOf("GET", <<"api", "categories">>, "GET /api/categories"),
     RouteOf("GET", <<"api", "categories", ":id">>, "GET /api/categories/:id"),
     RouteOf("PUT", <<"api", "categories", ":id">>, "PUT /api/categories/:id"),
     RouteOf("DELETE", <<"api", "categories", ":id">>, "DELETE /api/categories/:id"),
     RouteOf("POST", <<"api", "articles">>, "POST /api/articles"),
     RouteOf("GET", <<"api", "articles">>, "GET /api/articles"),
     RouteOf("GET", <<"api", "articles", ":id">>, "GET /api/articles/:id"),
     RouteOf("GET", <<"api", "articles", "slug", ":slug">>, "GET /api/articles/slug/:slug"),
     RouteOf("PUT", <<"api", "articles", ":id">>, "PUT /api/articles/:id"),
     RouteOf("DELETE", <<"api", "articles", ":id">>, "DELETE /api/articles/:id"),
     RouteOf("POST", <<"api", "articles", ":id", "like">>, "POST /api/articles/:id/like"),
     RouteOf("POST", <<"api", "articles", ":id", "unlike">>, "POST /api/articles/:id/unlike"),
     RouteOf("GET", <<"api", "articles", ":id", "like-status">>, "GET /api/articles/:id/like-status"),
     RouteOf("GET", <<"api", "articles", "liked">>, "GET /api/articles/liked"),
     RouteOf("GET", <<"api", "articles", ":id", "like-stats">>, "GET /api/articles/:id/like-stats"),
     RouteOf("POST", <<"api", "articles", ":id", "view">>, "POST /api/articles/:id/view"),
     RouteOf("GET", <<"api", "articles", ":id", "view-stats">>, "GET /api/articles/:id/view-stats"),
     RouteOf("GET", <<"api", "articles", "most-viewed">>, "GET /api/articles/most-viewed"),
     RouteOf("GET", <<"api", "articles", ":id", "comments">>, "GET /api/articles/:id/comments"),
     RouteOf("POST", <<"api", "articles", ":id", "comments">>, "POST /api/articles/:id/comments"),
     RouteOf("POST", <<"api", "comments", ":id", "like">>, "POST /api/comments/:id/like"),
     RouteOf("DELETE", <<"api", "comments", ":id">>, "DELETE /api/comments/:id"),
     RouteOf("GET", <<"api", "projects">>, "GET /api/projects"),
     RouteOf("GET", <<"api", "projects", ":id">>, "GET /api/projects/:id"),
     RouteOf("POST", <<"api", "articles", ":id", "share">>, "POST /api/articles/:id/share"),
     RouteOf("GET", <<>>, "GET /"),
     RouteOf("GET", <<"health">>, "GET /health") >>

\* a segment of a route path that is a parameter
IsParam(segment) == segment \in {":id", ":slug"}

\* The route path matches the request path: as many segments, each one
\* equal or a parameter.
Matches(pattern, path) ==
  /\ Len(pattern) = Len(path)
  /\ \A i \in DOMAIN pattern : IsParam(pattern[i]) \/ pattern[i] = path[i]

\* The router: the first registered route of the method whose path
\* matches handles the request, the 404 handler if there is none.
Dispatch(routes, method, path) ==
  LET hits == {i \in DOMAIN routes :
                 routes[i].method = method /\ Matches(routes[i].path, path)}
  IN  IF hits = {} THEN "Route not found"
      ELSE routes[CHOOSE i \in hits : \A j \in hits : i <= j].name

\* methods and paths of the requests that are routed
MethodInputs == {"GET", "POST", "DELETE"}

PathInputs ==
  { <<"api", "articles", "most-viewed">>, <<"api", "articles", "liked">>,
    <<"api", "articles", "slug", "abc01-0">>, <<"api", "articles", "1">>,
    <<"api", "articles">>, <<"api", "articles", "1", "like">>,
    <<"api", "categories", "1">> }

\* A request reaches the router of index.js: the response records the
\* route that handles it.
Route(r, method, path) ==
  /\ Receive(r)
  /\ req' = [req EXCEPT ![r] = IdleRequest]
  /\ res' = [NoResponse EXCEPT
               !.n = res.n + 1, !.op = "route",
               !.query = [method |-> method, path |-> path],
               !.message = Dispatch(Routes, method, path)]
  /\ UNCHANGED <<articles, categories, nextArticle, nextCategory,
                 pendingViews, pendingCount, comments, nextComment, server,
                 destroyed>>

\* A request reaches the router of part_000.
RouteV0(r, method, path) ==
  /\ Receive(r)
  /\ req' = [req EXCEPT ![r] = IdleRequest]
  /\ res' = [NoResponse EXCEPT
               !.n = res.n + 1, !.op = "routeV0",
               !.query = [method |-> method, path |-> path],
               !.message = Dispatch(RoutesV0, method, path)]
  /\ UNCHANGED <<articles, categories, nextArticle, nextCategory,
                 pendingViews, pendingCount, comments, nextComment, server,
                 destroyed>>

----------------------------------------------------------------------------
(* Startup: connectDB and app.listen *)

\* await mongoose.connect(...) resolves.
ConnectOk ==
  /\ server.running
  /\ server.store = "connecting"
  /\ server' = [server EXCEPT !.store = "connected"]
  /\ UNCHANGED <<articles, categories, nextArticle, nextCategory,
                 pendingViews, pendingCount, req, res, nreq, comments,
                 nextComment, destroyed>>

\* await mongoose.connect(...) rejects: with retries left the catch block
\* waits 5 seconds, otherwise it calls process.exit(1).
ConnectFail ==
  /\ server.running
  /\ server.store = "connecting"
  /\ server' = IF server.retries > 0
                 THEN [server EXCEPT !.store = "backoff"]
                 ELSE [server EXCEPT !.store = "failed",
                                     !.running = FALSE, !.exit = 1]
  /\ UNCHANGED <<articles, categories, nextArticle, nextCategory,
                 pendingViews, pendingCount, req, res, nreq, comments,
                 nextComment, destroyed>>

\* Mutant of ConnectRetry: connectDB is called again with the same number
\* of retries.
ConnectRetrySame ==
  /\ server.running
  /\ server.store = "backoff"
  /\ server' = [server EXCEPT !.store = "connecting"]
  /\ UNCHANGED <<articles, categories, nextArticle, nextCategory,
                 pendingViews, pendingCount, req, res, nreq, comments,
                 nextComment, destroyed>>

\* The 5 second timer fires: return connectDB(retries - 1).
ConnectRetry ==
  /\ server.running
  /\ server.store = "backoff"
  /\ server' = [server EXCEPT !.store = "connecting", !.retries = @ - 1]
  /\ UNCHANGED <<articles, categories, nextArticle, nextCategory,
                 pendingViews, pendingCount, req, res, nreq, comments,
                 nextComment, destroyed>>

\* mongoose.connection.readyState === 1
Connected == server.store = "connected"

\* GET /health: 200 when the store is connected, 503 otherwise.
Health(r) ==
  /\ Receive(r)
  /\ IF Connected
       THEN Respond(r, "health", 0, <<>>, 200, "Server is healthy", -1)
       ELSE Respond(r, "health", 0, <<>>, 503, "Server is healthy", -1)
  /\ UNCHANGED <<articles, categories, nextArticle, nextCategory,
                 pendingViews, pendingCount, comments, nextComment, server,
                 destroyed>>

\* GET /
Root(r) ==
  /\ Receive(r)
  /\ Respond(r, "root", 0, <<>>, 200, "running", -1)
  /\ UNCHANGED <<articles, categories, nextArticle, nextCategory,
                 pendingViews, pendingCount, comments, nextComment, server,
                 destroyed>>

----------------------------------------------------------------------------
(* The server of src/index.js *)

\* the engagement handlers
Engagement ==
  \/ \E r \in Slots, id \in RequestIds, userId \in UserIds :
       \/ LikeFind(r, id, userId)
       \/ UnlikeFind(r, id, userId)
  \/ \E r \in Slots : LikeSave(r) \/ UnlikeSave(r)
  \/ \E r \in Slots, id \in RequestIds : ViewArticle(r, id)
  \/ \E r \in Slots, id \in RequestIds : GetArticle(r, id)
  \/ \E id \in 1 .. MaxArticles : ApplyViewInc(id)

\* the handlers that create and delete articles
Lifecycle ==
  \/ \E r \in Slots, category \in ArticleCategoryInputs, fault \in Faults :
       CreateArticle(r, PlainTitle, nextArticle + 1, category, fault)
  \/ \E name \in CategoryLabels : ApplyCountInc(name)
  \/ \E r \in Slots, id \in RequestIds : DeleteArticleFind(r, id, "ok")
  \/ \E r \in Slots : DeleteArticleRemove(r) \/ DeleteArticleDecrement(r)

\* article deletion under either answer of the media service
Removal ==
  \/ \E r \in Slots, id \in RequestIds, destroy \in DestroyOutcomes :
       DeleteArticleFind(r, id, destroy)
  \/ \E r \in Slots : DeleteArticleRemove(r) \/ DeleteArticleDecrement(r)
  \/ \E r \in Slots :
       CreateArticle(r, PlainTitle, nextArticle + 1, PlainCategory, "none")

\* the handler that updates articles
Update ==
  \/ \E r \in Slots, id \in RequestIds, category \in ArticleCategoryInputs,
        fault \in Faults :
       UpdateArticleFind(r, id, <<>>, category, fault, FALSE, "ok")
  \/ \E r \in Slots : UpdateArticleWrite(r)

\* article creation under the titles and the clock values that decide
\* the slug
Publishing ==
  \E r \in Slots, title \in ArticleTitleInputs, timestamp \in Timestamps :
       CreateArticle(r, title, timestamp, PlainCategory, "none")

\* article updates that change the title
Retitling ==
  \/ \E r \in Slots, id \in RequestIds, title \in ArticleTitleInputs :
       UpdateArticleFind(r, id, title, <<>>, "none", FALSE, "ok")
  \/ \E r \in Slots : UpdateArticleWrite(r)

\* page and limit values carried by list requests
PageInputs == {1, 2}

LimitInputs == {1, 2}

\* the list handler, and what gives the articles different titles, views
\* and categories
Listing ==
  \/ \E r \in Slots, category \in {<<>>, PlainCategory}, page \in PageInputs,
        limit \in LimitInputs, sortBy \in SortInputs :
       ListArticles(r, category, page, limit, sortBy)
  \/ \E r \in Slots, title \in {PlainTitle, <<"A", "B", "C", "0", "1">>},
        category \in {PlainCategory, <<"a", ".", "c">>} :
       CreateArticle(r, title, nextArticle + 1, category, "none")
  \/ \E r \in Slots, id \in RequestIds : ViewArticle(r, id)

\* the category handlers
Categories ==
  \/ \E r \in Slots, categoryName \in CategoryNameInputs :
       CreateCategoryFind(r, categoryName)
  \/ \E r \in Slots : CreateCategoryInsert(r)
  \/ \E r \in Slots, id \in CategoryRequestIds,
        categoryName \in CategoryNameInputs :
       UpdateCategoryFind(r, id, categoryName)
  \/ \E r \in Slots : UpdateCategoryWrite(r)
  \/ \E r \in Slots, id \in CategoryRequestIds : DeleteCategory(r, id)

\* the comment handler
Commenting ==
  \/ \E r \in Slots, id \in RequestIds, user \in CommentUserInputs,
        text \in CommentTextInputs :
       CreateCommentFind(r, id, user, text)
  \/ \E r \in Slots : CreateCommentInsert(r)

\* category names carried by the requests of Intake (<<>> is "field
\* missing")
CategoryIntakeInputs == { PlainCategory, <<" ">>, <<>> }

\* handlers that check their input before their first store or media call
Intake ==
  \/ Commenting
  \/ \E r \in Slots, category \in {PlainCategory, <<>>}, fault \in Faults :
       CreateArticle(r, PlainTitle, nextArticle + 1, category, fault)
  \/ \E r \in Slots, id \in RequestIds : LikeFind(r, id, <<"u">>)
  \/ \E r \in Slots : LikeSave(r)
  \/ \E r \in Slots, categoryName \in CategoryIntakeInputs :
       CreateCategoryFind(r, categoryName)
  \/ \E r \in Slots : CreateCategoryInsert(r)

\* likes, unlikes and views of one caller, among articles that come and
\* go
Missing ==
  \/ \E r \in Slots, id \in RequestIds :
       \/ LikeFind(r, id, <<"u">>)
       \/ UnlikeFind(r, id, <<"u">>)
       \/ ViewArticle(r, id)
       \/ DeleteArticleFind(r, id, "ok")
  \/ \E r \in Slots :
       \/ LikeSave(r)
       \/ UnlikeSave(r)
       \/ DeleteArticleRemove(r)
       \/ DeleteArticleDecrement(r)
       \/ CreateArticle(r, PlainTitle, nextArticle + 1, PlainCategory,
                        "none")

\* requests that end in an error response
Failing ==
  \/ \E r \in Slots, err \in ErrorInputs : Throw(r, err) \/ ThrowV0(r, err)
  \/ \E r \in Slots : RouteNotFound(r)
  \/ \E r \in Slots, id \in RequestIds : GetArticle(r, id)

\* comments on articles that are deleted
Orphans ==
  \/ \E r \in Slots, id \in RequestIds :
       \/ CreateCommentFind(r, id, <<"u", "v">>, <<"a">>)
       \/ DeleteArticleFind(r, id, "ok")
       \/ ListComments(r, id, 1, DefaultCommentLimit)
  \/ \E r \in Slots :
       \/ CreateCommentInsert(r)
       \/ DeleteArticleRemove(r)
       \/ DeleteArticleDecrement(r)
       \/ CreateArticle(r, PlainTitle, nextArticle + 1, PlainCategory,
                        "none")

\* titles carried by the requests of Replacing (<<>> is "field missing",
\* the other one is too short for the schema)
ReplacingTitles == { <<>>, <<"a", "b">> }

\* article updates that replace the image
Replacing ==
  \/ \E r \in Slots, id \in RequestIds, title \in ReplacingTitles,
        fault \in {"none", "upload"}, files \in BOOLEAN,
        destroy \in DestroyOutcomes :
       \/ UpdateArticleFind(r, id, title, <<>>, fault, files, destroy)
       \/ UpdateArticleV0Find(r, id, title, fault, files, destroy)
  \/ \E r \in Slots : UpdateArticleWrite(r)
  \/ \E r \in Slots :
       CreateArticle(r, PlainTitle, nextArticle + 1, PlainCategory, "none")

\* requests on their way through the router
Routing ==
  \E r \in Slots, method \in MethodInputs, path \in PathInputs :
    Route(r, method, path) \/ RouteV0(r, method, path)

\* likes and unlikes of callers that send no userId
Guests ==
  \/ \E r \in Slots, id \in RequestIds, origin \in Origins,
        timestamp \in Timestamps :
       \/ LikeFindGuest(r, id, origin, timestamp)
       \/ UnlikeFindGuest(r, id, origin)
       \/ LikeV0Find(r, id, <<>>, origin, timestamp)
       \/ UnlikeV0Find(r, id, <<>>, origin, timestamp)
  \/ \E r \in Slots : LikeSave(r) \/ UnlikeSave(r)
  \/ \E r \in Slots :
       CreateArticle(r, PlainTitle, nextArticle + 1, PlainCategory, "none")

\* the connection attempts of connectDB
Startup == ConnectOk \/ ConnectFail \/ ConnectRetry

\* comments stored on the first article of a stocked store
Stock ==
  51

\* limit values carried by the list requests of Stocked
LimitQueryInputs ==
  {-51, 0, DefaultMostViewedLimit, DefaultCommentLimit, PageSizeCap, 51}

\* the list handlers under any limit, and what gives the articles
\* different views
Stocked ==
  \/ \E r \in Slots, id \in RequestIds, limit \in LimitQueryInputs :
       ListComments(r, id, 1, limit)
  \/ \E r \in Slots, limit \in LimitQueryInputs : MostViewed(r, limit)
  \/ \E r \in Slots, limit \in LimitQueryInputs :
       ListArticles(r, <<>>, 1, limit, "views")
  \/ \E r \in Slots :
       CreateArticle(r, PlainTitle, nextArticle + 1, PlainCategory, "none")
  \/ \E r \in Slots, id \in RequestIds : ViewArticle(r, id)

\* the routes that do not use the store
Probes == \E r \in Slots : Health(r) \/ Root(r)

Next ==
  \/ Engagement \/ Lifecycle \/ Update \/ Publishing \/ Retitling
  \/ Listing \/ Removal \/ Categories \/ Intake \/ Missing \/ Failing
  \/ Orphans \/ Replacing \/ Routing \/ Guests \/ Stocked
  \/ Startup \/ Probes

\* Requests on articles, handled concurrently.
Spec == Init /\ [][Engagement \/ Lifecycle]_vars

\* Requests on categories and on the articles they count, handled
\* concurrently.
SpecCatalog == Init /\ [][Lifecycle \/ Update \/ Categories]_vars

\* Every request runs to its response before the next one is received.
Sequential == nreq' # nreq => \A r \in Slots : req[r].pc = "done"

SpecSeq == Init /\ [][(Engagement \/ Lifecycle) /\ Sequential]_vars

SpecCatalogSeq ==
  Init /\ [][(Lifecycle \/ Update \/ Categories) /\ Sequential]_vars

\* Requests that write articles under any title, handled concurrently.
SpecPublish == Init /\ [][Publishing \/ Retitling]_vars

\* Requests that write articles and categories under any title and name,
\* handled concurrently.
SpecSlug == Init /\ [][Publishing \/ Retitling \/ Categories]_vars

\* Requests that create and delete articles, the media service failing or
\* not.
SpecRemoval == Init /\ [][Removal]_vars

\* Requests that list articles, among requests that create and view them.
SpecList == Init /\ [][Listing]_vars

\* Requests that may fail the checks of their handler, handled
\* concurrently.
SpecIntake == Init /\ [][Intake]_vars

\* Likes, unlikes and views of articles that may not exist, or not any
\* more.
SpecMissing == Init /\ [][Missing]_vars

\* Article updates with and without a replacement image, under either
\* answer of the media service.
SpecMedia == Init /\ [][Replacing]_vars

\* Requests dispatched by the routers of index.js and of part_000.
SpecRoutes == Init /\ [][Routing]_vars

\* Likes and unlikes of callers that send no userId, one request after
\* another.
SpecGuests == Init /\ [][Guests /\ Sequential]_vars

\* The store after one article was created and Stock comments were
\* written on it.
InitStocked ==
  /\ articles =
       [a \in {1} |->
          NewArticle(PlainCategory, PlainTitle, articleSlug(PlainTitle, 1))]
  /\ nextArticle = 1
  /\ comments =
       [c \in 1 .. Stock |->
          [articleId |-> 1, user |-> <<"u", "v">>, text |-> <<"a">>,
           likes |-> 0]]
  /\ nextComment = Stock
  /\ categories = <<>>
  /\ nextCategory = 0
  /\ pendingViews = [a \in 1 .. MaxArticles |-> 0]
  /\ pendingCount = [n \in CategoryLabels |-> 0]
  /\ req = [r \in Slots |-> IdleRequest]
  /\ res = NoResponse
  /\ nreq = 0
  /\ destroyed = {}
  /\ server = Serving

\* Lists requested under any limit from a store that holds more than
\* PageSizeCap comments.
SpecStocked == InitStocked /\ [][Stocked]_vars

\* Comments written, listed, and their articles deleted.
SpecOrphans == Init /\ [][Orphans]_vars

\* The server answering under any value of NODE_ENV (part_000 listens
\* under every one; in production index.js is handed its requests by the
\* platform that imports the app).
InitModes ==
  /\ InitStore
  /\ \E mode \in Modes :
       server = [Serving EXCEPT !.mode = mode]

\* Requests that end in an error response, under any environment mode.
SpecErrors == InitModes /\ [][Failing]_vars

\* The process from the evaluation of index.js on.
InitStartup ==
  /\ InitStore
  /\ \E production \in BOOLEAN : server = Started(production)

SpecStartup == InitStartup /\ [][Startup \/ Probes]_vars

\* mongoose.connect settles within serverSelectionTimeoutMS and the
\* 5 second timer fires: a pending step of connectDB is taken.
SpecStartupLive == SpecStartup /\ WF_vars(Startup)

----------------------------------------------------------------------------
(* The variant src/unnamed/part_000 *)

\* POST /api/articles: Article.create, after which the handler awaits the
\* articleCount increment.  Nothing is sanitised; the schema trims.
CreateArticleV0(r, title, category, fault) ==
  /\ Receive(r)
  /\ LET label == Trim(category)
         heading == Trim(title)
         slug == articleSlugV0(heading)
     IN
     IF category = <<>> \/ title = <<>> \/ fault = "fields"
       THEN /\ Respond(r, "createV0", 0, <<>>, 400,
                       "All fields are required", -1)
            /\ UNCHANGED <<articles, nextArticle>>
     ELSE IF fault = "files"
       THEN /\ Respond(r, "createV0", 0, <<>>, 400,
                       "Avatar and image are required", -1)
            /\ UNCHANGED <<articles, nextArticle>>
     ELSE IF fault = "upload"
       THEN /\ Respond(r, "createV0", 0, <<>>, 500,
                       "Cloudinary upload failed", -1)
            /\ UNCHANGED <<articles, nextArticle>>
     ELSE IF fault = "schema" \/ label = <<>> \/ Len(heading) < 5
       THEN /\ Respond(r, "createV0", 0, <<>>, 400, "Validation Error", -1)
            /\ UNCHANGED <<articles, nextArticle>>
     ELSE IF ArticlesWithSlug(slug) # {}
       THEN /\ Respond(r, "createV0", 0, <<>>, 500, "E11000 duplicate key",
                       -1)
            /\ UNCHANGED <<articles, nextArticle>>
     ELSE /\ nextArticle < MaxArticles
          /\ nextArticle' = nextArticle + 1
          /\ articles' =
               [a \in DOMAIN articles \cup {nextArticle'} |->
                  IF a = nextArticle' THEN NewArticle(label, heading, slug)
                                      ELSE articles[a]]
          /\ Await(r, "count", "createV0", nextArticle', label, NoDoc)
  /\ UNCHANGED <<categories, nextCategory, pendingViews, pendingCount>>
  /\ UNCHANGED <<server, comments, nextComment, destroyed>>

\* await Category.findOneAndUpdate({ categoryName: category },
\*                                 { $inc: { articleCount: 1 } })
CreateArticleV0Count(r) ==
  /\ req[r].pc = "count"
  /\ req[r].op = "createV0"
  /\ categories' = IncArticleCount(req[r].name, 1)
  /\ Respond(r, "createV0", req[r].id, req[r].name, 201,
             "Article created successfully", -1)
  /\ UNCHANGED <<articles, nextArticle, nextCategory, pendingViews,
                 pendingCount, nreq>>
  /\ UNCHANGED <<server, comments, nextComment, destroyed>>

\* GET /api/articles/:id and GET /api/articles/slug/:slug:
\* await Article.findById / findOne (a malformed id is a CastError, 400)
GetArticleV0Find(r, id) ==
  /\ Receive(r)
  /\ IF ~validateObjectId(id)
       THEN Respond(r, "getV0", id, <<>>, 400, "Invalid ID format", -1)
     ELSE IF id \notin DOMAIN articles
       THEN Respond(r, "getV0", id, <<>>, 404, "Article not found", -1)
     ELSE Await(r, "save", "getV0", id, <<>>, articles[id])
  /\ UNCHANGED <<articles, categories, nextArticle, nextCategory,
                 pendingViews, pendingCount>>
  /\ UNCHANGED <<server, comments, nextComment, destroyed>>

\* article.views += 1 on the loaded document; article.save() then writes
\* { $set: { views } } filtered by _id.
ViewsWriteV0(stored, snap) == [stored EXCEPT !.views = snap.views + 1]

\* await article.save() and the response
GetArticleV0Save(r) ==
  /\ req[r].pc = "save"
  /\ req[r].op = "getV0"
  /\ LET id == req[r].id IN
       IF id \in DOMAIN articles
         THEN /\ articles' =
                   [articles EXCEPT ![id] = ViewsWriteV0(@, req[r].snap)]
              /\ Respond(r, "getV0", id, <<>>, 200, "",
                         req[r].snap.views + 1)
         ELSE /\ articles' = articles
              /\ Respond(r, "getV0", id, <<>>, 500, "No document found", -1)
  /\ UNCHANGED <<categories, nextArticle, nextCategory, pendingViews,
                 pendingCount, nreq>>
  /\ UNCHANGED <<server, comments, nextComment, destroyed>>

\* POST /api/articles/:id/view
ViewArticleV0(r, id) ==
  /\ Receive(r)
  /\ IF ~validateObjectId(id)
       THEN /\ Respond(r, "viewV0", id, <<>>, 400, "Invalid ID format", -1)
            /\ articles' = articles
     ELSE IF id \notin DOMAIN articles
       THEN /\ Respond(r, "viewV0", id, <<>>, 404, "Article not found", -1)
            /\ articles' = articles
     ELSE /\ articles' = [articles EXCEPT ![id] = IncViews(@)]
          /\ Respond(r, "viewV0", id, <<>>, 200,
                     "View tracked successfully", articles'[id].views)
  /\ UNCHANGED <<categories, nextCategory, nextArticle, pendingViews,
                 pendingCount>>
  /\ UNCHANGED <<server, comments, nextComment, destroyed>>

\* cloudinary.uploader.destroy(publicId) as it stands in Promise.all: a
\* rejection is not caught.
destroyV0(destroy) == IF destroy = "fail" THEN "rejected" ELSE "fulfilled"

\* DELETE /api/articles/:id: await Article.findById (a malformed id is a
\* CastError, 400), then the calls of Promise.all are issued: the two
\* destroys, Article.findByIdAndDelete and the articleCount decrement,
\* which DeleteArticleRemove and DeleteArticleDecrement carry out.
DeleteArticleV0Find(r, id, destroy) ==
  /\ Receive(r)
  /\ IF ~validateObjectId(id)
       THEN Respond(r, "deleteV0", id, <<>>, 400, "Invalid ID format", -1)
     ELSE IF id \notin DOMAIN articles
       THEN Respond(r, "deleteV0", id, <<>>, 404, "Article not found", -1)
     ELSE /\ req' = [req EXCEPT ![r] =
                       [IdleRequest EXCEPT !.pc = "all", !.op = "deleteV0",
                          !.id = id, !.name = articles[id].category,
                          !.snap = articles[id], !.removed = "pending",
                          !.decremented = "pending", !.destroy = destroy,
                          !.media = destroyV0(destroy)]]
          /\ res' = res
  /\ destroyed' = IF validateObjectId(id) /\ id \in DOMAIN articles
                  THEN Destroy(id, articles[id].asset, destroy)
                  ELSE destroyed
  /\ UNCHANGED <<articles, categories, nextArticle, nextCategory,
                 pendingViews, pendingCount, comments, nextComment, server>>

NextV0 ==
  \/ \E r \in Slots, title \in ArticleTitleInputs,
        category \in ArticleCategoryInputs, fault \in Faults :
       CreateArticleV0(r, title, category, fault)
  \/ \E r \in Slots : CreateArticleV0Count(r)
  \/ \E r \in Slots, id \in RequestIds : GetArticleV0Find(r, id)
  \/ \E r \in Slots : GetArticleV0Save(r)
  \/ \E r \in Slots, id \in RequestIds : ViewArticleV0(r, id)
  \/ \E r \in Slots, id \in RequestIds, destroy \in DestroyOutcomes :
       DeleteArticleV0Find(r, id, destroy)
  \/ \E r \in Slots : DeleteArticleRemove(r) \/ DeleteArticleDecrement(r)

\* Requests on articles handled concurrently by the variant.
SpecV0 == Init /\ [][NextV0]_vars

----------------------------------------------------------------------------
(* Properties *)

\* the identities requests can carry
Identities == {sanitizeInput(u) : u \in UserIds}

\* number of entries of seq equal to x
Occurrences(seq, x) == Cardinality({i \in DOMAIN seq : seq[i] = x})

\* The step receives a request `op` on article id by identity ident.
EngagementReceived(op, id, ident) ==
  /\ nreq' = nreq + 1
  /\ \/ Responded /\ res'.op = op /\ res'.id = id /\ res'.name = ident
     \/ \E r \in Slots :
          /\ req[r].pc = "done"
          /\ req'[r].pc = "save"
          /\ req'[r].op = op
          /\ req'[r].id = id
          /\ req'[r].name = ident

\* The step answers a request `op` with `status`.
Answers(op, status) ==
  Responded /\ res'.op = op /\ res'.status = status

\* C1: when like and unlike requests run one after another, every stored
\* article has likes equal to the number of entries of likedBy, and
\* likes >= 0, after each request.
C1_LikesEqualLikedBy ==
  \A a \in DOMAIN articles :
    /\ articles[a].likes = Len(articles[a].likedBy)
    /\ articles[a].likes >= 0

\* C1 witness: two identities liked an article and one of them unliked it.
C1_Witness ==
  /\ res.op = "unlike"
  /\ res.status = 200
  /\ res.id \in DOMAIN articles
  /\ articles[res.id].likes = 1
  /\ articles[res.id].v = 3

\* C2: of two concurrent like requests for the same article and the same
\* identity at most one succeeds: once a like has been answered with
\* success, the identity is in likedBy exactly once.
C2_SameIdentityLikedOnce ==
  (res.op = "like" /\ res.status = 200 /\ res.id \in DOMAIN articles)
    => Occurrences(articles[res.id].likedBy, res.name) = 1

\* C3: no like is lost when likes by different identities interleave: a
\* like by an identity that is not stored yet, answered with success,
\* raises the stored likes by exactly 1 and keeps every stored identity.
C3_NoLikeLost ==
  [][ (Answers("like", 200)
         /\ ~Includes(articles[res'.id].likedBy, res'.name))
      => /\ articles'[res'.id].likes = articles[res'.id].likes + 1
         /\ Includes(articles'[res'.id].likedBy, res'.name)
         /\ \A i \in DOMAIN articles[res'.id].likedBy :
              Includes(articles'[res'.id].likedBy,
                       articles[res'.id].likedBy[i]) ]_vars

ViewCounted(a) ==
  \/ Answers("view", 200) /\ res'.id = a
  \/ pendingViews'[a] = pendingViews[a] - 1

\* C6: every successful POST /api/articles/:id/view raises the stored views
\* by exactly 1 whatever like, unlike, fetch, create and delete requests
\* interleave with it, no other request changes views, a view request on a
\* stored article always succeeds, and its response reports the views value
\* after its own increment.
C6_EveryViewCounts ==
  [][ /\ \A a \in DOMAIN articles \cap DOMAIN articles' :
           articles'[a].views =
             articles[a].views + (IF ViewCounted(a) THEN 1 ELSE 0)
      /\ \A a \in DOMAIN articles :
           (nreq' = nreq + 1 /\ Responded /\ res'.op = "view"
              /\ res'.id = a)
           => /\ res'.status = 200
              /\ res'.data = articles[a].views + 1
              /\ res'.data = articles'[a].views ]_vars

\* C6 witness: two views were counted while a like that loaded the article
\* before them is still waiting for its save.
C6_Witness ==
  /\ res.op = "view"
  /\ res.status = 200
  /\ res.data = 2
  /\ \E r \in Slots :
       /\ req[r].op = "like"
       /\ req[r].pc = "save"
       /\ req[r].id = res.id
       /\ req[r].snap.views = 0

\* C7: in the variant part_000 every successful fetch of an article raises
\* its stored views by exactly 1, in any interleaving.
C7_EveryFetchCounts ==
  [][ Answers("getV0", 200)
      => articles'[res'.id].views = articles[res'.id].views + 1 ]_vars

\* C8: a DELETE request decrements the articleCount of the article's
\* category only if it is the request that removed the article, so that the
\* count goes down by 1 per deleted article.
C8_OneDecrementPerDeletedArticle ==
  (res.op = "delete" /\ res.status = 200 /\ res.decremented = "yes")
    => res.removed = "yes"

\* No request is in flight and no dispatched update is waiting.
Quiescent ==
  /\ \A r \in Slots : req[r].pc = "done"
  /\ \A n \in CategoryLabels : pendingCount[n] = 0
  /\ \A a \in 1 .. MaxArticles : pendingViews[a] = 0

\* C9: after any sequence of category and article requests, once they
\* have all completed, every category's articleCount is >= 0.
C9_ArticleCountNonNegative ==
  Quiescent => \A c \in DOMAIN categories : categories[c].articleCount >= 0

\* two names are equal ignoring letter case
SameIgnoringCase(a, b) == toLowerCase(a) = toLowerCase(b)

\* C10: creating a category whose name (of valid length) equals a stored
\* name ignoring case is answered 409 and stores nothing; creating one
\* whose name differs from every stored name ignoring case is answered 201
\* and stores it.
C10_CreateCategoryByName ==
  [][ (Responded /\ res'.op = "createCategory"
         /\ ValidCategoryName(res'.name))
      => IF \E c \in DOMAIN categories :
              SameIgnoringCase(categories[c].categoryName, res'.name)
           THEN res'.status = 409 /\ categories' = categories
           ELSE /\ res'.status = 201
                /\ \E c \in DOMAIN categories' \ DOMAIN categories :
                     categories'[c].categoryName = res'.name ]_vars

\* C11: in every reachable state, also under concurrent category creates
\* and renames, no two stored categories have names that are equal ignoring
\* letter case.
C11_NamesUniqueIgnoringCase ==
  \A c, d \in DOMAIN categories :
    c # d => ~SameIgnoringCase(categories[c].categoryName,
                               categories[d].categoryName)

\* the slug carries the derivation of the title under some clock value
SlugOfTitle(slug, title) ==
  \E timestamp \in Timestamps : slug = articleSlug(title, timestamp)

\* C12: every stored category's slug is the slug derivation of its current
\* name, and every stored article's slug is derived from its current title,
\* also after a rename or a title change.
C12_SlugFollowsName ==
  /\ \A c \in DOMAIN categories :
       categories[c].slug = categorySlug(categories[c].categoryName)
  /\ \A a \in DOMAIN articles :
       SlugOfTitle(articles[a].slug, articles[a].title)

\* lowercase, only [a-z0-9-], no leading and no trailing hyphen, and a fixed
\* point of the derivation
WellFormedSlug(slug) ==
  /\ toLowerCase(slug) = slug
  /\ \A i \in DOMAIN slug : IsAlnum(slug[i]) \/ slug[i] = "-"
  /\ slug # <<>> => Head(slug) # "-" /\ slug[Len(slug)] # "-"
  /\ categorySlug(slug) = slug

\* C13: the slug stored for every category and every article created from
\* an accepted name or title is lowercase, over [a-z0-9-], without leading
\* or trailing hyphen, and unchanged by the derivation; for articles this
\* includes the timestamp suffix.
C13_StoredSlugsWellFormed ==
  /\ \A c \in DOMAIN categories : WellFormedSlug(categories[c].slug)
  /\ \A a \in DOMAIN articles : WellFormedSlug(articles[a].slug)

\* the slug is nothing but the hyphen and the timestamp
OnlyDisambiguator(slug) ==
  \E timestamp \in Timestamps : slug = <<"-">> \o Decimal(timestamp)

\* C14: a name or title that the derivation reduces to the empty string is
\* refused, so no category is stored with an empty slug and no article with
\* an empty slug or a slug that is only the disambiguator.
C14_NoEmptySlugStored ==
  /\ \A c \in DOMAIN categories : categories[c].slug # <<>>
  /\ \A a \in DOMAIN articles :
       articles[a].slug # <<>> /\ ~OnlyDisambiguator(articles[a].slug)

\* C15: no two stored articles share a slug, and a create that collides with
\* a stored slug is rejected and leaves every stored article as it was.
C15_ArticleSlugsUnique ==
  [][/\ \A a, b \in DOMAIN articles' :
          a # b => articles'[a].slug # articles'[b].slug
     /\ Responded /\ res'.op = "create" /\ res'.status = 409
          => articles' = articles]_vars

\* Two articles with one title are stored and a third create with that
\* title, in the clock tick of one of them, has been rejected.
C15_Witness ==
  /\ res.op = "create"
  /\ res.status = 409
  /\ \E a, b \in DOMAIN articles :
       a # b /\ articles[a].title = articles[b].title

\* C19: the process listens only once the store connection is established,
\* and a process whose connection attempts all failed has never accepted a
\* request.
C19_ListensOnlyWhenConnected ==
  /\ Accepting => Connected
  /\ server.store = "failed" => nreq = 0

\* C20: the identity a like or unlike request with an explicit userId is
\* compared with and stores is that userId character for character.
C20_IdentityVerbatim ==
  [][\A r \in Slots, id \in RequestIds, userId \in UserIds :
       /\ LikeFind(r, id, userId) \/ UnlikeFind(r, id, userId)
            => (req'[r].pc = "save" => req'[r].name = userId)
       /\ LikeFind(r, id, userId) /\ id \in DOMAIN articles
            => (Responded <=> Includes(articles[id].likedBy, userId))
       /\ UnlikeFind(r, id, userId) /\ id \in DOMAIN articles
            => (Responded <=> ~Includes(articles[id].likedBy, userId))]_vars

\* the list response answers a query the claim speaks of
ListAnswered ==
  /\ Responded
  /\ res'.op = "list"
  /\ res'.query.page >= 1
  /\ res'.query.limit \in 1 .. 50
  /\ res'.query.sortBy \in validSortFields

\* the articles the query of the response matches
Matched ==
  {a \in DOMAIN articles :
     res'.query.category # <<>>
       => articles[a].category = res'.query.category}

\* the sequence is in non-increasing order of the field
Descending(seq, field) ==
  \A i, j \in DOMAIN seq :
    i < j =>
      CASE field = "views" -> articles[seq[i]].views >= articles[seq[j]].views
        [] field = "likes" -> articles[seq[i]].likes >= articles[seq[j]].likes
        [] field = "title" ->
             StringAtLeast(articles[seq[i]].title, articles[seq[j]].title)
        [] OTHER -> seq[i] >= seq[j]

C17_MediaFailureSwallowed ==
  [][(Responded /\ res'.op \in {"delete", "deleteV0"}
        /\ res'.destroy = "fail")
      => /\ res'.status = 200
         /\ res'.id \notin DOMAIN articles']_vars

\* The messages of the checks a handler makes on its own input.
HandlerChecks ==
  {"Invalid article ID format", "All fields are required",
   "Avatar and image files are required", "Category name is required",
   "User name and comment text are required"}

\* The request received in the step is answered in that same step, before
\* the handler awaits anything, with 400 and the message of a handler
\* check, and no collection and no dispatched update changes.
RejectedOnReceipt(r) ==
  /\ Responded
  /\ nreq' = nreq + 1
  /\ req'[r].pc = "done"
  /\ res'.status = 400
  /\ res'.message \in HandlerChecks
  /\ UNCHANGED <<articles, categories, comments, nextArticle, nextCategory,
                 nextComment, pendingViews, pendingCount>>

\* C18: a request that fails a check of its handler (a malformed id, a
\* missing category, title, description or code, a missing avatar or
\* image file, an empty category name, an empty comment user or text) is
\* answered with 400 before any call to the store or the media service,
\* and no stored state changes.
C18_RejectedBeforeAnyCall ==
  [][nreq' = nreq + 1 => \A r \in Slots :
       /\ \A id \in RequestIds, user \in CommentUserInputs,
             text \in CommentTextInputs :
            (/\ id = 0 \/ Trim(user) = <<>> \/ Trim(text) = <<>>
             /\ CreateCommentFind(r, id, user, text))
              => RejectedOnReceipt(r)
       /\ \A id \in RequestIds :
            (id = 0 /\ LikeFind(r, id, <<"u">>)) => RejectedOnReceipt(r)
       /\ \A category \in {PlainCategory, <<>>}, fault \in Faults :
            (/\ category = <<>> \/ fault \in {"fields", "files"}
             /\ CreateArticle(r, PlainTitle, nextArticle + 1, category,
                              fault))
              => RejectedOnReceipt(r)
       /\ \A categoryName \in CategoryIntakeInputs :
            (Trim(categoryName) = <<>>
               /\ CreateCategoryFind(r, categoryName))
              => RejectedOnReceipt(r)]_vars

\* A comment without a user or a text was rejected although its article
\* exists, and no comment is stored.
C18_Witness ==
  /\ res.op = "comment"
  /\ res.status = 400
  /\ res.message = "User name and comment text are required"
  /\ res.id \in DOMAIN articles
  /\ comments = <<>>

\* C21: a like, unlike or view request whose well-formed id resolves to no
\* article is answered with 404 in the step that looks the id up, and
\* nothing in the store changes.
C21_NotFoundChangesNothing ==
  [][nreq' = nreq + 1 => \A r \in Slots, id \in RequestIds :
       (/\ id # 0
        /\ id \notin DOMAIN articles
        /\ \/ LikeFind(r, id, <<"u">>)
           \/ UnlikeFind(r, id, <<"u">>)
           \/ ViewArticle(r, id))
         => /\ Responded
            /\ res'.status = 404
            /\ UNCHANGED <<articles, categories, comments, nextArticle,
                           nextCategory, nextComment, pendingViews,
                           pendingCount>>]_vars

\* A view of an id that resolves to nothing was answered with 404 while
\* another article with a like and a view is stored.
C21_Witness ==
  /\ res.op = "view"
  /\ res.status = 404
  /\ res.id # 0
  /\ res.id \notin DOMAIN articles
  /\ \E a \in DOMAIN articles :
       articles[a].likes = 1 /\ articles[a].views = 1

\* The response reports a validation failure or a not-found outcome: the
\* error handler's answer to a ValidationError or a CastError, or a 400
\* or 404 sent by a handler or by the 404 handler itself.
ValidationOrNotFound ==
  \/ res.err \in {"ValidationError", "CastError"}
  \/ res.err = "" /\ res.status \in {400, 404}

C23_CommentsOutliveArticle ==
  [][/\ (DOMAIN articles' # DOMAIN articles /\ nextArticle' = nextArticle)
        => comments' = comments
     /\ (Responded /\ res'.op = "delete" /\ res'.status = 200)
        => comments' = comments
     /\ (Responded /\ res'.op = "comments" /\ res'.status = 200)
        => {res'.items[i] : i \in DOMAIN res'.items}
             = {c \in DOMAIN comments : comments[c].articleId = res'.id}
    ]_vars

\* The comments of a deleted article have been listed, and there were
\* some.
C23_Witness ==
  /\ res.op = "comments"
  /\ res.status = 200
  /\ res.id \in 1 .. nextArticle
  /\ res.id \notin DOMAIN articles
  /\ res.items # <<>>

\* C24: in every reachable state likedBy of an article holds each identity
\* at most once, under any interleaving of like and unlike requests.
C24_LikedByIsASet ==
  \A a \in DOMAIN articles :
    \A i, j \in DOMAIN articles[a].likedBy :
      articles[a].likedBy[i] = articles[a].likedBy[j] => i = j

\* C25: once every request has completed and every dispatched update has
\* been applied, each category's articleCount equals the number of stored
\* articles whose category label is that category's name.
C25_ArticleCountMatchesArticles ==
  Quiescent =>
    \A c \in DOMAIN categories :
      categories[c].articleCount =
        Cardinality({a \in DOMAIN articles :
                       articles[a].category = categories[c].categoryName})

\* C26: an article update never leaves the stored record referring to a
\* media asset that has been destroyed: when PUT /api/articles/:id is
\* answered, with success or with a failure, the asset the stored record
\* refers to still exists.
C26_RecordRefersToExistingAsset ==
  [][(/\ Responded
      /\ res'.op \in {"update", "updateV0"}
      /\ res'.id \in DOMAIN articles')
       => <<res'.id, articles'[res'.id].asset>> \notin destroyed']_vars

\* C27: GET /api/articles/most-viewed, GET /api/articles/liked and
\* GET /api/articles/slug/:slug are dispatched to their own handlers,
\* never to the handler of GET /api/articles/:id, by the router of
\* index.js and by the router of part_000.
C27_OwnHandlers ==
  (res.op \in {"route", "routeV0"} /\ res.query.method = "GET") =>
    /\ res.query.path = <<"api", "articles", "most-viewed">>
         => res.message = "GET /api/articles/most-viewed"
    /\ res.query.path = <<"api", "articles", "liked">>
         => res.message = "GET /api/articles/liked"
    /\ res.query.path = <<"api", "articles", "slug", "abc01-0">>
         => res.message = "GET /api/articles/slug/:slug"

\* C28: when no caller sends a userId, an unlike request for a stored
\* article is answered with the conflict response, whatever likes the
\* same origin sent before, and the likes count of no article goes down.
C28_GuestUnlikeFails ==
  [][/\ (/\ Responded
         /\ res'.op \in {"unlike", "unlikeV0"}
         /\ res'.status # 404
         /\ validateObjectId(res'.id))
          => /\ res'.status = 400
             /\ res'.message = "You haven't liked this article"
     /\ \A a \in DOMAIN articles \cap DOMAIN articles' :
          articles'[a].likes >= articles[a].likes]_vars

\* connection attempts that have settled so far
Attempts ==
  StartRetries - server.retries
    + IF server.store = "connecting" THEN 0 ELSE 1

\* C29: connectDB terminates: it makes at most StartRetries + 1 attempts,
\* the remaining retries going down by 1 per failed attempt, it stops at
\* the first success, and the process exits with code 1 exactly when the
\* last of the StartRetries + 1 attempts has failed.
C29_ConnectTerminates ==
  /\ [](Attempts <= StartRetries + 1 /\ server.retries >= 0)
  /\ [][server'.retries # server.retries
          => /\ server.store = "backoff"
             /\ server'.retries = server.retries - 1]_vars
  /\ [][server.store = "connected" => server' = server]_vars
  /\ [](server.exit = 1
          <=> (server.store = "failed" /\ Attempts = StartRetries + 1))
  /\ [](server.exit \in {-1, 1})
  /\ <>(server.store \in {"connected", "failed"})

\* Every attempt has failed and the process has exited with code 1.
C29_Witness ==
  /\ server.store = "failed"
  /\ server.retries = 0
  /\ server.exit = 1
  /\ ~server.running

\* the articles of items come in non-increasing order of views
ByViews(items) ==
  \A i, j \in DOMAIN items :
    i < j => articles[items[i]].views >= articles[items[j]].views

\* the items of a most-viewed response come by views
MostViewedByViews ==
  res.op = "mostViewed" => ByViews(res.items)

\* C30: under every limit, a response of the article list, the comment
\* list or most-viewed holds at most PageSizeCap items, and most-viewed
\* holds them in non-increasing order of views.
C30_AtMostFiftyItems ==
  /\ res.op \in {"list", "comments", "mostViewed"} /\ res.status = 200
       => Len(res.items) <= PageSizeCap
  /\ MostViewedByViews

====
